---- MODULE Spec2Model ----
(***************************************************************************)
(* Verification model of the grading agent (bytemanxie/grading-agent).     *)
(*                                                                         *)
(* Part 1  Batch grading coordinator: GradingService.gradeBatch,           *)
(*         processWithConcurrencyLimit and the per-sheet job; the          *)
(*         grade-batch HTTP handler; the page loop of gradeSheet; several  *)
(*         gradeBatch calls served at the same time.                       *)
(* Part 2  Callback dispatcher: CallbackService.sendCallback.              *)
(* Part 3  Score reconciler: ScoreCalculationService.parseScoreResponse    *)
(*         and calculateScores.                                            *)
(* Part 4  Merger of page results: mergeScoreResults and                   *)
(*         mergeAnswerRecognition; question numbers as keys.               *)
(* Part 5  Recognition of one student page:                                *)
(*         RecognitionService.recognizeStudentAnswers.                     *)
(* Part 6  Region recognition: ResponseParserService.parseResponse and     *)
(*         QwenVLService.recognizeRegions with                             *)
(*         ImageValidatorService.validateImageSize.                        *)
(*                                                                         *)
(* One action is one turn of the JavaScript event loop: the completion of  *)
(* an awaited I/O operation together with every promise reaction that runs *)
(* before the next I/O completion can be observed.                         *)
(***************************************************************************)
EXTENDS Integers, Sequences, FiniteSets, TLC

VARIABLES
    \* ---- batch grading coordinator ----
    numSheets,        \* dto.sheets.length
    cfgMaxConcurrent, \* configService.get('grading.maxConcurrent'); 0 = unset or 0
    loopPc,           \* position of gradeBatch / processWithConcurrencyLimit
    nextTask,         \* index of the next task the for-loop will start
    executing,        \* the `executing` array, as the sheet indexes of its promises
    results,          \* the `results` array (every task resolves with undefined)
    pc,               \* per sheet: position of the sheet job
    prom,             \* per sheet: state of `promise` = task().then(...)
    completedCalls,   \* per sheet: sendCallback invocations with status completed
    failedCalls,      \* per sheet: sendCallback invocations with status failed
    completedCb,      \* per sheet: outcome of the completed-status sendCallback
    failedCb,         \* per sheet: outcome of the failed-status sendCallback
    thrown,           \* per sheet: the error the task function threw
    batchError,       \* the error gradeBatch rejected with
    \* ---- callback dispatcher ----
    cbRetries,        \* parameter `retries` of sendCallback
    cbPc,             \* position of sendCallback
    cbAttempt,        \* loop variable `attempt`
    cbLastError,      \* `lastError` (its message; <<>> is null)
    cbThrown,         \* message of the error sendCallback threw
    cbLog,            \* observed history: POSTs issued and timer waits
    cbOutcomes,       \* observed history: how the target answered each POST
    \* ---- score reconciler ----
    scContent,        \* response.content of the grading model
    scBlankScores,    \* blankSheetRecognition.scores
    scPc,             \* position of calculateScores
    scResult,         \* the ScoreCalculationResult returned
    \* ---- merger of page score results ----
    msResults,        \* parameter `results` of mergeScoreResults
    msPc,             \* position of mergeScoreResults
    msMerged,         \* the ScoreCalculationResult returned
    \* ---- merger of answer recognition results ----
    maResults,        \* parameter `results` of mergeAnswerRecognition
    maPc,             \* position of mergeAnswerRecognition
    maMerged,         \* the AnswerRecognitionResponse returned
    \* ---- recognition of one student page ----
    rsRegions,        \* blankSheetRecognition.regions
    rsPc,             \* position of recognizeStudentAnswers
    rsChoicePc,       \* per choice region: position of its async function
    rsChoice,         \* per choice region: its promise in choiceAnswersPromises
    rsEssay,          \* essayAnswersPromise
    rsOrder,          \* observed history: the branches (0 = full image) as they ended
    rsResult,         \* `regions` of the AnswerRecognitionResponse returned
    \* ---- response parser ----
    prContent,        \* parameter `content` of parseResponse
    prPc,             \* position of parseResponse
    prResult,         \* the RecognitionResult returned
    \* ---- recognition of the regions of a blank sheet ----
    rrImageSize,      \* size in bytes of the image behind imageUrl
    rrPc,             \* position of recognizeRegions
    rrPath,           \* the return statement recognizeRegions left by
    rrResult,         \* the RecognitionResult returned
    rrThrown,         \* what recognizeRegions threw
    rrLog,            \* observed history: model calls and parses
    \* ---- grade-batch HTTP handler ----
    ctlPc,            \* position of GradingController.gradeBatch
    ctlResponse,      \* the GradeBatchResponse returned
    ctlLogged,        \* the .catch callback logged 'Batch grading failed'
    \* ---- pages of one sheet ----
    gsUrls,           \* studentSheetImageUrls.length
    gsBlanks,         \* blankSheetRecognition.length
    gsAnswers,        \* answerRecognition: one object or an array
    gsPc,             \* position of gradeSheet
    gsI,              \* loop variable `i`
    gsPageResults,    \* `pageResults`, as the page indexes pushed
    gsLog,            \* observed history: calls started and ended
    gsThrown,         \* what gradeSheet threw, and where
    gsCallbacks,      \* the sendCallback calls made for the sheet
    \* ---- question numbers as keys ----
    qkFirst,          \* a question number
    qkSecond,         \* another question number, or the same
    qkSeen,           \* per use: whether the two were treated as one key
    \* ---- gradeBatch calls in parallel ----
    gbConfigured,     \* configured grading.maxConcurrent, 0 when unset
    gbSheets,         \* per call: dto.sheets.length
    gbPc,             \* per call: position of processWithConcurrencyLimit
    gbNext,           \* per call: index of the next task of the for-loop
    gbExecuting,      \* per call: `executing`, as sheet indexes
    gbJob             \* per call and sheet: state of the sheet job

batchVars == <<numSheets, cfgMaxConcurrent, loopPc, nextTask, executing, results,
               pc, prom, completedCalls, failedCalls, completedCb, failedCb,
               thrown, batchError>>

cbVars == <<cbRetries, cbPc, cbAttempt, cbLastError, cbThrown, cbLog, cbOutcomes>>

scoreVars == <<scContent, scBlankScores, scPc, scResult>>

mergeScoreVars == <<msResults, msPc, msMerged>>

mergeAnswerVars == <<maResults, maPc, maMerged>>

recogVars == <<rsRegions, rsPc, rsChoicePc, rsChoice, rsEssay, rsOrder, rsResult>>

parseVars == <<prContent, prPc, prResult>>

regionsVars == <<rrImageSize, rrPc, rrPath, rrResult, rrThrown, rrLog>>

controllerVars == <<ctlPc, ctlResponse, ctlLogged>>

sheetVars ==
    <<gsUrls, gsBlanks, gsAnswers, gsPc, gsI, gsPageResults, gsLog, gsThrown,
      gsCallbacks>>

keysVars == <<qkFirst, qkSecond, qkSeen>>

poolVars == <<gbConfigured, gbSheets, gbPc, gbNext, gbExecuting, gbJob>>

vars == <<batchVars, cbVars, scoreVars, mergeScoreVars, mergeAnswerVars, recogVars,
          parseVars, regionsVars, controllerVars, sheetVars, keysVars, poolVars>>

\* What the actions of one component leave alone: every other component.
exceptBatch ==
    <<cbVars, scoreVars, mergeScoreVars, mergeAnswerVars, recogVars, parseVars,
      regionsVars, controllerVars, sheetVars, keysVars, poolVars>>
exceptCb ==
    <<batchVars, scoreVars, mergeScoreVars, mergeAnswerVars, recogVars, parseVars,
      regionsVars, controllerVars, sheetVars, keysVars, poolVars>>
exceptScore ==
    <<batchVars, cbVars, mergeScoreVars, mergeAnswerVars, recogVars, parseVars,
      regionsVars, controllerVars, sheetVars, keysVars, poolVars>>
exceptMergeScore ==
    <<batchVars, cbVars, scoreVars, mergeAnswerVars, recogVars, parseVars,
      regionsVars, controllerVars, sheetVars, keysVars, poolVars>>
exceptMergeAnswer ==
    <<batchVars, cbVars, scoreVars, mergeScoreVars, recogVars, parseVars, regionsVars,
      controllerVars, sheetVars, keysVars, poolVars>>
exceptRecog ==
    <<batchVars, cbVars, scoreVars, mergeScoreVars, mergeAnswerVars, parseVars,
      regionsVars, controllerVars, sheetVars, keysVars, poolVars>>
exceptParse ==
    <<batchVars, cbVars, scoreVars, mergeScoreVars, mergeAnswerVars, recogVars,
      regionsVars, controllerVars, sheetVars, keysVars, poolVars>>
exceptRegions ==
    <<batchVars, cbVars, scoreVars, mergeScoreVars, mergeAnswerVars, recogVars,
      parseVars, controllerVars, sheetVars, keysVars, poolVars>>
exceptController ==
    <<batchVars, cbVars, scoreVars, mergeScoreVars, mergeAnswerVars, recogVars,
      parseVars, regionsVars, sheetVars, keysVars, poolVars>>
exceptSheet ==
    <<batchVars, cbVars, scoreVars, mergeScoreVars, mergeAnswerVars, recogVars,
      parseVars, regionsVars, controllerVars, keysVars, poolVars>>
exceptKeys ==
    <<batchVars, cbVars, scoreVars, mergeScoreVars, mergeAnswerVars, recogVars,
      parseVars, regionsVars, controllerVars, sheetVars, poolVars>>
exceptPool ==
    <<batchVars, cbVars, scoreVars, mergeScoreVars, mergeAnswerVars, recogVars,
      parseVars, regionsVars, controllerVars, sheetVars, keysVars>>
exceptBatchAndController ==
    <<cbVars, scoreVars, mergeScoreVars, mergeAnswerVars, recogVars, parseVars,
      regionsVars, sheetVars, keysVars, poolVars>>

\* ---------------------------------------------------------------------------
\* Bounds
\* ---------------------------------------------------------------------------
MaxSheets == 6
MaxConfigured == 2
MaxRetries == 3
MaxQuestions == 1
MaxBlankScores == 2

\* ---------------------------------------------------------------------------
\* Part 1: batch grading coordinator
\* ---------------------------------------------------------------------------
DefaultMaxConcurrent == 5

Sheets == 1..numSheets

\* const maxConcurrent = this.configService.get<number>('grading.maxConcurrent') || 5;
MaxConcurrent(cfg) == IF cfg = 0 THEN DefaultMaxConcurrent ELSE cfg

\* if (executing.length >= limit) await Promise.race(executing);
ShouldAwaitRaceOffByOne(len, limit) == len > limit
ShouldAwaitRace(len, limit) == len >= limit

\* executing.splice(executing.indexOf(promise), 1)
Splice(seq, s) == SelectSeq(seq, LAMBDA x : x # s)

\* The synchronous run of the for-loop of processWithConcurrencyLimit from task
\* i on: each iteration calls task(), pushes its promise and suspends at
\* Promise.race when executing.length >= limit; after the last task the loop
\* is left for Promise.all(executing), which resolves at once on an empty array.
RECURSIVE LoopFrom(_, _, _, _)
LoopFrom(i, exec, n, limit) ==
    IF i > n
    THEN [next |-> i, executing |-> exec,
          at |-> IF exec = <<>> THEN "returned" ELSE "all"]
    ELSE LET exec2 == Append(exec, i) IN
         IF ShouldAwaitRace(Len(exec2), limit)
         THEN [next |-> i + 1, executing |-> exec2, at |-> "race"]
         ELSE LoopFrom(i + 1, exec2, n, limit)

\* Effect of a loop run on the jobs: tasks from..to-1 have been called.
StartTasks(from, to) ==
    /\ pc' = [s \in Sheets |-> IF s >= from /\ s < to THEN "grading" ELSE pc[s]]
    /\ prom' = [s \in Sheets |-> IF s >= from /\ s < to THEN "pending" ELSE prom[s]]

BatchInit ==
    /\ numSheets \in 1..MaxSheets
    /\ cfgMaxConcurrent \in 0..MaxConfigured
    /\ loopPc = "notCalled"
    /\ nextTask = 1
    /\ executing = <<>>
    /\ results = <<>>
    /\ pc = [s \in Sheets |-> "notStarted"]
    /\ prom = [s \in Sheets |-> "none"]
    /\ completedCalls = [s \in Sheets |-> 0]
    /\ failedCalls = [s \in Sheets |-> 0]
    /\ completedCb = [s \in Sheets |-> "none"]
    /\ failedCb = [s \in Sheets |-> "none"]
    /\ thrown = [s \in Sheets |-> "none"]
    /\ batchError = "none"

\* gradeBatch(dto) is called: tasks are built and processWithConcurrencyLimit
\* runs its loop up to the first await.
GradeBatchCall ==
    /\ loopPc = "notCalled"
    /\ LET r == LoopFrom(1, <<>>, numSheets, MaxConcurrent(cfgMaxConcurrent)) IN
        /\ loopPc' = r.at
        /\ nextTask' = r.next
        /\ executing' = r.executing
        /\ StartTasks(1, r.next)
    /\ UNCHANGED <<numSheets, cfgMaxConcurrent, results, completedCalls,
                   failedCalls, completedCb, failedCb, thrown, batchError>>

\* gradeBatch(dto) called on the service by itself.
GradeBatch ==
    /\ GradeBatchCall
    /\ UNCHANGED exceptBatch

\* gradeSheet reached step 6 (all pages recognised, scored, merged, enriched)
\* and invokes sendCallback with status completed.
SheetGraded(s) ==
    /\ pc[s] = "grading"
    /\ pc' = [pc EXCEPT ![s] = "sendCompleted"]
    /\ completedCalls' = [completedCalls EXCEPT ![s] = @ + 1]
    /\ completedCb' = [completedCb EXCEPT ![s] = "sending"]
    /\ UNCHANGED <<numSheets, cfgMaxConcurrent, loopPc, nextTask, executing,
                   results, prom, failedCalls, failedCb, thrown, batchError>>
    /\ UNCHANGED exceptBatch

\* gradeSheet throws (length mismatch, recognition, scoring or merge): the
\* catch of gradeSheet re-throws, the catch of the task invokes sendCallback
\* with status failed.
SheetFails(s) ==
    /\ pc[s] = "grading"
    /\ pc' = [pc EXCEPT ![s] = "sendFailed"]
    /\ failedCalls' = [failedCalls EXCEPT ![s] = @ + 1]
    /\ failedCb' = [failedCb EXCEPT ![s] = "sending"]
    /\ UNCHANGED <<numSheets, cfgMaxConcurrent, loopPc, nextTask, executing,
                   results, prom, completedCalls, completedCb, thrown, batchError>>
    /\ UNCHANGED exceptBatch

\* The task function of sheet s returns: the .then callback pushes the result
\* and splices the promise, then the pending Promise.race / Promise.all reacts.
TaskFulfils(s) ==
    LET exec1 == Splice(executing, s)
        r == CASE loopPc = "race" ->
                    LoopFrom(nextTask, exec1, numSheets,
                             MaxConcurrent(cfgMaxConcurrent))
               [] loopPc = "all" ->
                    [next |-> nextTask, executing |-> exec1,
                     at |-> IF exec1 = <<>> THEN "returned" ELSE "all"]
               [] OTHER ->
                    [next |-> nextTask, executing |-> exec1, at |-> loopPc]
    IN
    /\ results' = Append(results, "undefined")
    /\ loopPc' = r.at
    /\ nextTask' = r.next
    /\ executing' = r.executing
    /\ pc' = [t \in Sheets |->
                IF t = s THEN "returned"
                ELSE IF t >= nextTask /\ t < r.next THEN "grading" ELSE pc[t]]
    /\ prom' = [t \in Sheets |->
                IF t = s THEN "fulfilled"
                ELSE IF t >= nextTask /\ t < r.next THEN "pending" ELSE prom[t]]
    /\ UNCHANGED <<numSheets, cfgMaxConcurrent, thrown, batchError>>

\* The task function of sheet s throws err: `promise` rejects, the .then
\* callback does not run (the promise stays in executing), and the pending
\* Promise.race / Promise.all rejects, which rejects gradeBatch.
TaskRejects(s, err) ==
    /\ pc' = [pc EXCEPT ![s] = "threw"]
    /\ prom' = [prom EXCEPT ![s] = "rejected"]
    /\ thrown' = [thrown EXCEPT ![s] = err]
    /\ IF loopPc \in {"race", "all"}
       THEN loopPc' = "rejected" /\ batchError' = err
       ELSE UNCHANGED <<loopPc, batchError>>
    /\ UNCHANGED <<numSheets, cfgMaxConcurrent, nextTask, executing, results>>

\* sendCallback(completed) got a 2xx response: gradeSheet returns.
CompletedCallbackDelivered(s) ==
    /\ pc[s] = "sendCompleted"
    /\ completedCb' = [completedCb EXCEPT ![s] = "delivered"]
    /\ TaskFulfils(s)
    /\ UNCHANGED <<completedCalls, failedCalls, failedCb>>
    /\ UNCHANGED exceptBatch

\* Variant of CompletedCallbackExhausted without the inner try/catch of step 6:
\* the callback error reaches the catch of the task, which sends a failed callback.
CompletedCallbackExhaustedRethrown(s) ==
    /\ pc[s] = "sendCompleted"
    /\ completedCb' = [completedCb EXCEPT ![s] = "exhausted"]
    /\ pc' = [pc EXCEPT ![s] = "sendFailed"]
    /\ failedCalls' = [failedCalls EXCEPT ![s] = @ + 1]
    /\ failedCb' = [failedCb EXCEPT ![s] = "sending"]
    /\ UNCHANGED <<numSheets, cfgMaxConcurrent, loopPc, nextTask, executing,
                   results, prom, completedCalls, thrown, batchError>>
    /\ UNCHANGED exceptBatch

\* sendCallback(completed) threw after all its retries: the catch of step 6
\* logs the error and gradeSheet returns normally.
CompletedCallbackExhausted(s) ==
    /\ pc[s] = "sendCompleted"
    /\ completedCb' = [completedCb EXCEPT ![s] = "exhausted"]
    /\ TaskFulfils(s)
    /\ UNCHANGED <<completedCalls, failedCalls, failedCb>>
    /\ UNCHANGED exceptBatch

\* sendCallback(failed) got a 2xx response: the task re-throws the grading error.
FailedCallbackDelivered(s) ==
    /\ pc[s] = "sendFailed"
    /\ failedCb' = [failedCb EXCEPT ![s] = "delivered"]
    /\ TaskRejects(s, "grading")
    /\ UNCHANGED <<completedCalls, failedCalls, completedCb>>
    /\ UNCHANGED exceptBatch

\* Variant of FailedCallbackExhausted without the try/catch around the
\* failure callback: the callback error leaves the task.
FailedCallbackExhaustedUncaught(s) ==
    /\ pc[s] = "sendFailed"
    /\ failedCb' = [failedCb EXCEPT ![s] = "exhausted"]
    /\ TaskRejects(s, "callback")
    /\ UNCHANGED <<completedCalls, failedCalls, completedCb>>
    /\ UNCHANGED exceptBatch

\* sendCallback(failed) threw after all its retries: the catch logs a warning
\* and the task re-throws the grading error.
FailedCallbackExhausted(s) ==
    /\ pc[s] = "sendFailed"
    /\ failedCb' = [failedCb EXCEPT ![s] = "exhausted"]
    /\ TaskRejects(s, "grading")
    /\ UNCHANGED <<completedCalls, failedCalls, completedCb>>
    /\ UNCHANGED exceptBatch

\* The steps of the sheet jobs of a batch under way.
BatchSteps ==
    \/ \E s \in Sheets : SheetGraded(s)
    \/ \E s \in Sheets : SheetFails(s)
    \/ \E s \in Sheets : CompletedCallbackDelivered(s)
    \/ \E s \in Sheets : CompletedCallbackExhausted(s)
    \/ \E s \in Sheets : FailedCallbackDelivered(s)
    \/ \E s \in Sheets : FailedCallbackExhausted(s)

BatchNext ==
    \/ GradeBatch
    \/ BatchSteps


\* ---------------------------------------------------------------------------
\* Part 1a: gradeBatch calls running at the same time
\* ---------------------------------------------------------------------------
\* The handler starts each call without awaiting it, so a second request is
\* served while the first batch is under way.  `results` and `executing` are
\* local variables of processWithConcurrencyLimit: every call has its own.
Calls == {"first", "second"}
MaxCallSheets == 2
CallSheets(c) == 1..gbSheets[c]

\* Effect of a loop run of call c on its jobs: tasks from..to-1 were called.
StartJobs(c, from, to) ==
    [gbJob EXCEPT ![c] =
        [s \in CallSheets(c) |->
            IF s >= from /\ s < to THEN "inFlight" ELSE gbJob[c][s]]]

PoolIdle ==
    /\ gbConfigured = 0
    /\ gbSheets = [c \in Calls |-> 1]
    /\ gbPc = [c \in Calls |-> "notCalled"]
    /\ gbNext = [c \in Calls |-> 1]
    /\ gbExecuting = [c \in Calls |-> <<>>]
    /\ gbJob = [c \in Calls |-> [s \in 1..1 |-> "notStarted"]]

PoolInit ==
    /\ gbConfigured \in 0..MaxConfigured
    /\ gbSheets \in [Calls -> 1..MaxCallSheets]
    /\ gbPc = [c \in Calls |-> "notCalled"]
    /\ gbNext = [c \in Calls |-> 1]
    /\ gbExecuting = [c \in Calls |-> <<>>]
    /\ gbJob = [c \in Calls |-> [s \in CallSheets(c) |-> "notStarted"]]

\* gradeBatch(dto) is called for request c: processWithConcurrencyLimit runs
\* its loop up to the first await.
GradeBatchOf(c) ==
    /\ gbPc[c] = "notCalled"
    /\ LET r == LoopFrom(1, <<>>, gbSheets[c], MaxConcurrent(gbConfigured)) IN
        /\ gbPc' = [gbPc EXCEPT ![c] = r.at]
        /\ gbNext' = [gbNext EXCEPT ![c] = r.next]
        /\ gbExecuting' = [gbExecuting EXCEPT ![c] = r.executing]
        /\ gbJob' = StartJobs(c, 1, r.next)
    /\ UNCHANGED <<gbConfigured, gbSheets>>
    /\ UNCHANGED exceptPool

\* The task of sheet s of call c returns: its promise is spliced from the
\* call's own `executing` and the call's pending Promise.race / Promise.all
\* reacts.
JobFulfils(c, s) ==
    /\ s \in CallSheets(c)
    /\ gbJob[c][s] = "inFlight"
    /\ LET exec1 == Splice(gbExecuting[c], s)
           r == CASE gbPc[c] = "race" ->
                       LoopFrom(gbNext[c], exec1, gbSheets[c],
                                MaxConcurrent(gbConfigured))
                  [] gbPc[c] = "all" ->
                       [next |-> gbNext[c], executing |-> exec1,
                        at |-> IF exec1 = <<>> THEN "returned" ELSE "all"]
                  [] OTHER ->
                       [next |-> gbNext[c], executing |-> exec1, at |-> gbPc[c]]
       IN
        /\ gbPc' = [gbPc EXCEPT ![c] = r.at]
        /\ gbNext' = [gbNext EXCEPT ![c] = r.next]
        /\ gbExecuting' = [gbExecuting EXCEPT ![c] = r.executing]
        /\ gbJob' = [StartJobs(c, gbNext[c], r.next) EXCEPT ![c][s] = "returned"]
    /\ UNCHANGED <<gbConfigured, gbSheets>>
    /\ UNCHANGED exceptPool

\* The task of sheet s of call c re-throws the grading error: the call's
\* pending Promise.race / Promise.all rejects, and with it the call.
JobRejects(c, s) ==
    /\ s \in CallSheets(c)
    /\ gbJob[c][s] = "inFlight"
    /\ gbJob' = [gbJob EXCEPT ![c][s] = "threw"]
    /\ gbPc' = [gbPc EXCEPT ![c] = IF @ \in {"race", "all"} THEN "rejected" ELSE @]
    /\ UNCHANGED <<gbConfigured, gbSheets, gbNext, gbExecuting>>
    /\ UNCHANGED exceptPool

PoolNext ==
    \/ \E c \in Calls : GradeBatchOf(c)
    \/ \E c \in Calls, s \in 1..MaxCallSheets : JobFulfils(c, s)
    \/ \E c \in Calls, s \in 1..MaxCallSheets : JobRejects(c, s)


\* ---------------------------------------------------------------------------
\* Part 1b: GradingController.gradeBatch, the grade-batch HTTP handler
\* ---------------------------------------------------------------------------
NoResponse == [success |-> FALSE, submittedCount |-> 0]

\* return { success: true, message: ..., submittedCount: dto.sheets.length }
AcceptedResponse(sheetCount) == [success |-> TRUE, submittedCount |-> sheetCount]

\* A handler that awaited the call would throw with its rejection.
HandlerAwaitingBatch(handler) == "threw"

\* .catch((error) => { this.logger.error(...) }): the rejection is logged and
\* goes no further; the handler's result stays what it is.
HandlerAfterCatch(handler) == handler

ControllerIdle ==
    /\ ctlPc = "notCalled"
    /\ ctlResponse = NoResponse
    /\ ctlLogged = FALSE

ControllerInit == ControllerIdle

\* POST /grading/grade-batch: the handler calls gradingService.gradeBatch(dto),
\* which runs up to its first await, attaches .catch to the promise and
\* returns the response.
PostGradeBatch ==
    /\ ctlPc = "notCalled"
    /\ GradeBatchCall
    /\ ctlPc' = "returned"
    /\ ctlResponse' = AcceptedResponse(numSheets)
    /\ UNCHANGED ctlLogged
    /\ UNCHANGED exceptBatchAndController

\* The promise of gradeBatch(dto) rejected: the .catch callback runs.
BatchRejectionCaught ==
    /\ loopPc = "rejected"
    /\ ~ctlLogged
    /\ ctlLogged' = TRUE
    /\ ctlPc' = HandlerAfterCatch(ctlPc)
    /\ UNCHANGED ctlResponse
    /\ UNCHANGED exceptController

ControllerNext ==
    \/ PostGradeBatch
    \/ BatchSteps
    \/ BatchRejectionCaught


\* ---------------------------------------------------------------------------
\* Part 1c: GradingService.gradeSheet, the pages of one sheet
\* ---------------------------------------------------------------------------
\* Pages of one sheet.
MaxPages == 2

\* answerRecognition: one object for all pages, or an array of objects.
SingleAnswer == [isArray |-> FALSE, length |-> 0]
AnswerArray(n) == [isArray |-> TRUE, length |-> n]
AnswerInputs == {SingleAnswer} \cup {AnswerArray(n) : n \in 0..MaxPages}

\* The argument pageAnswerRecognition of page i: the single object, or entry i
\* of the array (undefined beyond its end).
WholeAnswer == [whole |-> TRUE, index |-> 0, defined |-> TRUE]
AnswerEntry(answers, i) ==
    [whole |-> FALSE, index |-> i, defined |-> i < answers.length]
firstPageAnswer(answers, i) ==
    IF answers.isArray THEN AnswerEntry(answers, 0) ELSE WholeAnswer
pageAnswerRecognition(answers, i) ==
    IF answers.isArray THEN AnswerEntry(answers, i) ELSE WholeAnswer

\* Entries of the observed history: a call is started with its arguments (the
\* indexes of the url, the blank sheet result and the answer key), or ends.
RecognizeStarted(i) ==
    [event |-> "recognizeStudentAnswers", page |-> i, url |-> i, blank |-> i,
     answer |-> WholeAnswer]
CalculateStarted(i, answers) ==
    [event |-> "calculateScores", page |-> i, url |-> i, blank |-> i,
     answer |-> pageAnswerRecognition(answers, i)]
CallEnded(event, i) ==
    [event |-> event, page |-> i, url |-> i, blank |-> i, answer |-> WholeAnswer]

\* The errors the calls of a page throw (all are Error objects), and the one
\* of the length check.
ErrorObject(message) == [isError |-> TRUE, message |-> message]
PageErrors ==
    {ErrorObject("Model returned empty response"),
     ErrorObject("Failed to parse model response")}
MismatchError == ErrorObject("Mismatch in array lengths")
NothingThrown == [at |-> "nowhere", page |-> 0, error |-> ErrorObject("")]
Thrown(at, page, error) == [at |-> at, page |-> page, error |-> error]

\* failureReason: error instanceof Error ? error.message : 'Unknown error'
UnknownReason(error) == "Unknown error"
FailureReason(error) ==
    IF error.isError THEN error.message ELSE "Unknown error"

\* The CallbackData of the two sendCallback calls.
CompletedCallback == [status |-> "completed", failureReason |-> ""]
FailedCallback(error) == [status |-> "failed", failureReason |-> FailureReason(error)]

\* gradeSheet throws: its catch re-throws, and the catch of the task calls
\* sendCallback with status failed.
SheetThrows(at, page, error) ==
    /\ gsPc' = "sendFailedCallback"
    /\ gsThrown' = Thrown(at, page, error)
    /\ gsCallbacks' = Append(gsCallbacks, FailedCallback(error))

SheetIdle ==
    /\ gsUrls = 0
    /\ gsBlanks = 0
    /\ gsAnswers = SingleAnswer
    /\ gsPc = "notCalled"
    /\ gsI = 0
    /\ gsPageResults = <<>>
    /\ gsLog = <<>>
    /\ gsThrown = NothingThrown
    /\ gsCallbacks = <<>>

SheetInit ==
    /\ gsUrls \in 0..MaxPages
    /\ gsBlanks \in 0..MaxPages
    /\ gsAnswers \in AnswerInputs
    /\ gsPc = "notCalled"
    /\ gsI = 0
    /\ gsPageResults = <<>>
    /\ gsLog = <<>>
    /\ gsThrown = NothingThrown
    /\ gsCallbacks = <<>>

\* The for-loop at its head with loop variable i: the recognition of page i
\* is started, or, behind the last page, the results are merged and the
\* completed callback is sent.
PageLoopFrom(i, log) ==
    /\ IF i < gsUrls
       THEN /\ gsPc' = "recognizeStudentAnswers"
            /\ gsLog' = Append(log, RecognizeStarted(i))
            /\ UNCHANGED gsCallbacks
       ELSE /\ gsPc' = "sendCallback"
            /\ gsLog' = log
            /\ gsCallbacks' = Append(gsCallbacks, CompletedCallback)
    /\ UNCHANGED gsThrown

\* gradeSheet is called: the lengths are compared and the loop is entered.
GradeSheet ==
    /\ gsPc = "notCalled"
    /\ IF gsUrls # gsBlanks
       THEN SheetThrows("lengths", 0, MismatchError) /\ UNCHANGED gsLog
       ELSE PageLoopFrom(0, gsLog)
    /\ UNCHANGED <<gsUrls, gsBlanks, gsAnswers, gsI, gsPageResults>>
    /\ UNCHANGED exceptSheet

\* await recognizeStudentAnswers(...) of page i resolves: calculateScores of
\* page i is called.
StudentAnswersRecognized ==
    /\ gsPc = "recognizeStudentAnswers"
    /\ gsPc' = "calculateScores"
    /\ gsLog' = gsLog \o <<CallEnded("recognized", gsI),
                           CalculateStarted(gsI, gsAnswers)>>
    /\ UNCHANGED <<gsUrls, gsBlanks, gsAnswers, gsI, gsPageResults, gsThrown,
                   gsCallbacks>>
    /\ UNCHANGED exceptSheet

\* await calculateScores(...) of page i resolves: the page result is pushed
\* and the loop goes on with i + 1.
ScoresCalculated ==
    /\ gsPc = "calculateScores"
    /\ gsPageResults' = Append(gsPageResults, gsI)
    /\ gsI' = gsI + 1
    /\ PageLoopFrom(gsI + 1, Append(gsLog, CallEnded("calculated", gsI)))
    /\ UNCHANGED <<gsUrls, gsBlanks, gsAnswers>>
    /\ UNCHANGED exceptSheet

\* The awaited call of page i rejects with error: the catch of gradeSheet
\* re-throws it to the task.
PageCallThrows(error) ==
    /\ gsPc \in {"recognizeStudentAnswers", "calculateScores"}
    /\ SheetThrows(gsPc, gsI, error)
    /\ UNCHANGED <<gsUrls, gsBlanks, gsAnswers, gsI, gsPageResults, gsLog>>
    /\ UNCHANGED exceptSheet

\* await sendCallback(...) of step 6 settles; its rejection is caught and
\* logged, gradeSheet returns and the task with it.
CompletedCallbackSettles ==
    /\ gsPc = "sendCallback"
    /\ gsPc' = "returned"
    /\ UNCHANGED <<gsUrls, gsBlanks, gsAnswers, gsI, gsPageResults, gsLog,
                   gsThrown, gsCallbacks>>
    /\ UNCHANGED exceptSheet

\* await sendCallback(...) of the task's catch settles; its rejection is
\* caught and logged, and the task re-throws the error of gradeSheet.
FailedCallbackSettles ==
    /\ gsPc = "sendFailedCallback"
    /\ gsPc' = "threw"
    /\ UNCHANGED <<gsUrls, gsBlanks, gsAnswers, gsI, gsPageResults, gsLog,
                   gsThrown, gsCallbacks>>
    /\ UNCHANGED exceptSheet

SheetNext ==
    \/ GradeSheet
    \/ StudentAnswersRecognized
    \/ ScoresCalculated
    \/ \E error \in PageErrors : PageCallThrows(error)
    \/ CompletedCallbackSettles
    \/ FailedCallbackSettles

\* ---------------------------------------------------------------------------
\* Part 2: callback dispatcher
\* ---------------------------------------------------------------------------
DefaultRetries == 3

\* What a POST to the callback url can meet: fetch rejects (network error) or
\* resolves with a response of some status.
Statuses == {200, 204, 304, 404, 500}
NetworkError == [kind |-> "network", status |-> 0]
Response(status) == [kind |-> "response", status |-> status]
Outcomes == {NetworkError} \cup {Response(st) : st \in Statuses}

\* response.ok
ResponseOkBelow400(status) == status >= 200 /\ status < 400
ResponseOk(status) == status >= 200 /\ status <= 299

\* for (let attempt = 0; attempt <= retries; attempt++)
LoopConditionOneMore(attempt, retries) == attempt <= retries + 1
LoopCondition(attempt, retries) == attempt <= retries

\* const delay = Math.pow(2, attempt) * 1000;
DelayLinear(attempt) == (attempt + 1) * 1000
Delay(attempt) == (2 ^ attempt) * 1000

\* The message of the error of one failed attempt: the rejection of fetch, or
\* `Callback failed with status ${response.status}: ${errorText}`.
AttemptError(o) ==
    IF o.kind = "network"
    THEN <<"fetch failed">>
    ELSE <<"Callback failed with status", ToString(o.status), ":", "errorText">>

\* `Callback failed after ${retries + 1} attempts: ${lastError?.message}`
ExhaustedError(retries, lastError) ==
    <<"Callback failed after", ToString(retries + 1), "attempts:">> \o
    (IF lastError = <<>> THEN <<"undefined">> ELSE lastError)

Post == [ev |-> "POST", ms |-> 0]
Wait(ms) == [ev |-> "WAIT", ms |-> ms]

CbIdle ==
    /\ cbRetries = DefaultRetries
    /\ cbPc = "notCalled"
    /\ cbAttempt = 0
    /\ cbLastError = <<>>
    /\ cbThrown = <<>>
    /\ cbLog = <<>>
    /\ cbOutcomes = <<>>

CbInit ==
    /\ cbRetries \in 0..MaxRetries
    /\ cbPc = "notCalled"
    /\ cbAttempt = 0
    /\ cbLastError = <<>>
    /\ cbThrown = <<>>
    /\ cbLog = <<>>
    /\ cbOutcomes = <<>>

\* The head of the retry loop with `attempt` = a and lastError = e: issue the
\* POST of this attempt, or leave the loop and throw.
LoopHead(a, e) ==
    /\ cbAttempt' = a
    /\ cbLastError' = e
    /\ IF LoopCondition(a, cbRetries)
       THEN /\ cbPc' = "fetch"
            /\ cbLog' = Append(cbLog, Post)
            /\ cbThrown' = cbThrown
       ELSE /\ cbPc' = "threw"
            /\ cbLog' = cbLog
            /\ cbThrown' = ExhaustedError(cbRetries, e)

\* sendCallback(callbackUrl, data, retries) is called.
SendCallback ==
    /\ cbPc = "notCalled"
    /\ LoopHead(0, <<>>)
    /\ UNCHANGED <<cbRetries, cbOutcomes>>
    /\ UNCHANGED exceptCb

\* The fetch of the current attempt settles with outcome o.
FetchSettles(o) ==
    /\ cbPc = "fetch"
    /\ cbOutcomes' = Append(cbOutcomes, o)
    /\ IF o.kind = "response" /\ ResponseOk(o.status)
       THEN \* return; // Success, exit retry loop
            /\ cbPc' = "returned"
            /\ UNCHANGED <<cbAttempt, cbLastError, cbThrown, cbLog>>
       ELSE IF cbAttempt < cbRetries
            THEN \* await new Promise((resolve) => setTimeout(resolve, delay))
                 /\ cbPc' = "wait"
                 /\ cbLastError' = AttemptError(o)
                 /\ cbLog' = Append(cbLog, Wait(Delay(cbAttempt)))
                 /\ UNCHANGED <<cbAttempt, cbThrown>>
            ELSE LoopHead(cbAttempt + 1, AttemptError(o))
    /\ UNCHANGED cbRetries
    /\ UNCHANGED exceptCb

\* The backoff timer fires: attempt++ and the loop goes on.
TimerFires ==
    /\ cbPc = "wait"
    /\ LoopHead(cbAttempt + 1, cbLastError)
    /\ UNCHANGED <<cbRetries, cbOutcomes>>
    /\ UNCHANGED exceptCb

CbNext ==
    \/ SendCallback
    \/ \E o \in Outcomes : FetchSettles(o)
    \/ TimerFires

\* ---------------------------------------------------------------------------
\* Part 3: score reconciler
\* ---------------------------------------------------------------------------
\* JavaScript values of the parsed JSON, by typeof. A string holds the digits v:
\* Str(1) is the string "1", which is not the number 1.
Num(n) == [t |-> "number", v |-> n]
Str(n) == [t |-> "string", v |-> n]
Null == [t |-> "null", v |-> 0]

QuestionNumberSamples == {Num(1), Str(1)}
ScoreSamples == {0, 1, 2}
MaxScoreSamples == {-1, 0, 1, 2}
TypeSamples == {"essay", "missing"}
BlankScoreSamples == {0, 2}

\* One element of the `questions` array of the grading model's JSON verdict.
Question(qn, ty, sc, mx) ==
    [question_number |-> qn, type |-> ty, score |-> sc, max_score |-> mx]

WellTypedQuestions ==
    {Question(qn, ty, Num(sc), Num(mx)) :
        qn \in QuestionNumberSamples, ty \in TypeSamples,
        sc \in ScoreSamples, mx \in MaxScoreSamples}

IllTypedQuestions ==
    {Question(Null, "essay", Num(1), Num(2)),
     Question(Num(1), "essay", Str(1), Num(2)),
     Question(Num(1), "essay", Num(1), Str(2)),
     Question(Num(1), "essay", Num(-1), Num(2))}

ModelQuestions == WellTypedQuestions \cup IllTypedQuestions

SeqsUpTo(S, n) == UNION {[1..k -> S] : k \in 0..n}

\* The content of the grading model's response.
Contents ==
    {[kind |-> k, questions |-> <<>>] : k \in {"empty", "unparsable", "noQuestions"}}
    \cup {[kind |-> "questions", questions |-> qs] :
            qs \in SeqsUpTo(ModelQuestions, MaxQuestions)}

\* blankSheetRecognition.scores
BlankScore(qn, sc) == [questionNumber |-> qn, score |-> sc]
BlankScoreLists ==
    SeqsUpTo({BlankScore(qn, sc) : qn \in QuestionNumberSamples,
                                   sc \in BlankScoreSamples}, MaxBlankScores)

Min(a, b) == IF a <= b THEN a ELSE b

\* new Map(blankSheetRecognition.scores.map((s) => [s.questionNumber, s.score]))
\* a later entry of the same key replaces an earlier one.
ScoresMap(scores) ==
    [k \in {scores[i].questionNumber : i \in DOMAIN scores} |->
        LET last == CHOOSE i \in DOMAIN scores :
                        /\ scores[i].questionNumber = k
                        /\ \A j \in DOMAIN scores :
                             scores[j].questionNumber = k => j <= i
        IN scores[last].score]

\* The .filter of parseScoreResponse.
IsValidQuestion(q) ==
    /\ q.question_number.t \in {"number", "string"}
    /\ q.score.t = "number"
    /\ q.max_score.t = "number"
    /\ q.score.v >= 0

\* const correctMaxScore = scoresMap.get(q.question_number) ?? q.max_score;
CorrectMaxScoreFromModel(map, q) == q.max_score.v
CorrectMaxScore(map, q) ==
    IF q.question_number \in DOMAIN map THEN map[q.question_number] ELSE q.max_score.v

\* The .map of parseScoreResponse.
MapQuestion(map, q) ==
    LET correctMaxScore == CorrectMaxScore(map, q) IN
    [question_number |-> q.question_number,
     type |-> IF q.type = "missing" THEN "choice" ELSE q.type,
     score |-> Min(q.score.v, correctMaxScore),
     max_score |-> correctMaxScore]

RECURSIVE FilterMap(_, _)
FilterMap(map, qs) ==
    IF qs = <<>> THEN <<>>
    ELSE (IF IsValidQuestion(Head(qs)) THEN <<MapQuestion(map, Head(qs))>> ELSE <<>>)
         \o FilterMap(map, Tail(qs))

\* parseScoreResponse(content, blankSheetRecognition): throws unless the
\* content parses to an object with a questions array.
parseScoreResponse(content, blankScores) ==
    IF content.kind # "questions"
    THEN [threw |-> TRUE, questions |-> <<>>]
    ELSE [threw |-> FALSE,
          questions |-> FilterMap(ScoresMap(blankScores), content.questions)]

RECURSIVE SumOf(_, _)
SumOf(qs, field) ==
    IF qs = <<>> THEN 0 ELSE Head(qs)[field] + SumOf(Tail(qs), field)

\* A property key of a plain object: the question number converted to a
\* string, so that the number 1 and the string "1" name the same property.
TypedKey(qn) == qn
ObjectKey(qn) == qn.v

\* The score map calculateScores fills for the questions of the given types:
\* a later question of the same key overwrites an earlier one.
ScoreMapFor(qs, types) ==
    LET idx == {i \in DOMAIN qs : qs[i].type \in types} IN
    [k \in {ObjectKey(qs[i].question_number) : i \in idx} |->
        LET last == CHOOSE i \in idx :
                        /\ ObjectKey(qs[i].question_number) = k
                        /\ \A j \in idx :
                             ObjectKey(qs[j].question_number) = k => j <= i
        IN [score |-> qs[last].score, max_score |-> qs[last].max_score]]

NoResult ==
    [questions |-> <<>>, objectiveScores |-> <<>>, subjectiveScores |-> <<>>,
     totalScore |-> 0, totalMaxScore |-> 0]

\* calculateScores(studentAnswers, standardAnswers, blankSheetRecognition),
\* from the model's response on.
calculateScores(content, blankScores) ==
    LET parsed == parseScoreResponse(content, blankScores) IN
    IF content.kind = "empty" \/ parsed.threw
    THEN [threw |-> TRUE, result |-> NoResult]
    ELSE [threw |-> FALSE,
          result |->
            [questions |-> parsed.questions,
             objectiveScores |-> ScoreMapFor(parsed.questions, {"choice", "fill"}),
             subjectiveScores |-> ScoreMapFor(parsed.questions, {"essay"}),
             totalScore |-> SumOf(parsed.questions, "score"),
             totalMaxScore |-> SumOf(parsed.questions, "max_score")]]

ScoreIdle ==
    /\ scContent = [kind |-> "empty", questions |-> <<>>]
    /\ scBlankScores = <<>>
    /\ scPc = "notCalled"
    /\ scResult = NoResult

ScoreInit ==
    /\ scContent \in Contents
    /\ scBlankScores \in BlankScoreLists
    /\ scPc = "notCalled"
    /\ scResult = NoResult

\* Verdicts of the grading model with several well-typed questions of the
\* three types, the same question number graded twice among them.
MaxGradedQuestions == 2
GradedQuestionSamples ==
    {Question(qn, ty, Num(sc), Num(1)) :
        qn \in QuestionNumberSamples, ty \in {"choice", "fill", "essay"},
        sc \in {0, 1}}
GradedContents ==
    {[kind |-> "questions", questions |-> qs] :
        qs \in SeqsUpTo(GradedQuestionSamples, MaxGradedQuestions)}

ScoreMapsInit ==
    /\ scContent \in GradedContents
    /\ scBlankScores = <<>>
    /\ scPc = "notCalled"
    /\ scResult = NoResult

\* calculateScores runs on the model's response.
CalculateScores ==
    /\ scPc = "notCalled"
    /\ LET r == calculateScores(scContent, scBlankScores) IN
        /\ scPc' = IF r.threw THEN "threw" ELSE "returned"
        /\ scResult' = r.result
    /\ UNCHANGED <<scContent, scBlankScores>>
    /\ UNCHANGED exceptScore

ScoreNext == CalculateScores

\* ---------------------------------------------------------------------------
\* Part 4a: ScoreCalculationService.mergeScoreResults
\* ---------------------------------------------------------------------------
MaxPageQuestions == 2

\* The QuestionScore values of the pages to merge: parseScoreResponse lets
\* through number and string question numbers and any type.
PageQuestion(qn, ty, sc, mx) ==
    [question_number |-> qn, type |-> ty, score |-> sc, max_score |-> mx]
PageQuestionSamples ==
    {PageQuestion(Num(1), "choice", 1, 1), PageQuestion(Num(1), "choice", 0, 1),
     PageQuestion(Str(1), "choice", 1, 1), PageQuestion(Num(1), "essay", 2, 3)}

\* The ScoreCalculationResult calculateScores builds from its questions.
ScoreResultOf(qs) ==
    [questions |-> qs,
     objectiveScores |-> ScoreMapFor(qs, {"choice", "fill"}),
     subjectiveScores |-> ScoreMapFor(qs, {"essay"}),
     totalScore |-> SumOf(qs, "score"),
     totalMaxScore |-> SumOf(qs, "max_score")]

PageResults ==
    {ScoreResultOf(qs) : qs \in SeqsUpTo(PageQuestionSamples, MaxPageQuestions)}

\* for (const result of results) for (const question of result.questions):
\* the questions in the order the loops visit them.
RECURSIVE AllQuestions(_)
AllQuestions(rs) ==
    IF rs = <<>> THEN <<>>
    ELSE Head(rs).questions \o AllQuestions(Tail(rs))

\* The values of questionMap in insertion order: only the first question of a
\* question_number is set.  Map keys are compared by type and value, the
\* number 1 and the string "1" are two keys.
RECURSIVE FirstByNumber(_, _)
FirstByNumber(qs, seen) ==
    IF qs = <<>> THEN <<>>
    ELSE LET q == Head(qs) IN
         IF q.question_number \in seen
         THEN FirstByNumber(Tail(qs), seen)
         ELSE <<q>> \o FirstByNumber(Tail(qs), seen \cup {q.question_number})

\* let totalScore = 0; ... totalScore += question.score, inside the
\* if (!questionMap.has(...)) branch.
MergedTotalScoreEveryPage(rs) == SumOf(AllQuestions(rs), "score")
MergedTotalScore(rs) ==
    SumOf(FirstByNumber(AllQuestions(rs), {}), "score")

\* The comparator of the final sort: numbers numerically, strings by
\* localeCompare (the sampled strings are single digits, ordered as their
\* values), a number before a string.
CompareScoreQuestions(a, b) ==
    LET aNum == a.question_number
        bNum == b.question_number
    IN  IF aNum.t = "number" /\ bNum.t = "number" THEN aNum.v - bNum.v
        ELSE IF aNum.t = "string" /\ bNum.t = "string" THEN aNum.v - bNum.v
        ELSE IF aNum.t = "number" /\ bNum.t = "string" THEN -1
        ELSE IF aNum.t = "string" /\ bNum.t = "number" THEN 1
        ELSE 0

\* Array.prototype.sort is stable: q goes behind every element not after it.
RECURSIVE InsertScoreQuestion(_, _)
InsertScoreQuestion(q, sorted) ==
    IF sorted = <<>> THEN <<q>>
    ELSE IF CompareScoreQuestions(Head(sorted), q) <= 0
         THEN <<Head(sorted)>> \o InsertScoreQuestion(q, Tail(sorted))
         ELSE <<q>> \o sorted

RECURSIVE SortScoreQuestions(_)
SortScoreQuestions(qs) ==
    IF qs = <<>> THEN <<>>
    ELSE InsertScoreQuestion(qs[Len(qs)],
                             SortScoreQuestions(SubSeq(qs, 1, Len(qs) - 1)))

\* objectiveScoresMap / subjectiveScoresMap, converted back to an object: the
\* entry of a key comes from the first result that has the key.  A key of
\* digits is parsed to a number for the Map and printed again as a property
\* name, which gives the key back.
MergeScoreMapsLastWins(rs, field) ==
    [k \in UNION {DOMAIN rs[i][field] : i \in DOMAIN rs} |->
        LET last == CHOOSE i \in DOMAIN rs :
                        /\ k \in DOMAIN rs[i][field]
                        /\ \A j \in DOMAIN rs :
                             k \in DOMAIN rs[j][field] => j <= i
        IN rs[last][field][k]]
MergeScoreMaps(rs, field) ==
    [k \in UNION {DOMAIN rs[i][field] : i \in DOMAIN rs} |->
        LET first == CHOOSE i \in DOMAIN rs :
                        /\ k \in DOMAIN rs[i][field]
                        /\ \A j \in DOMAIN rs :
                             k \in DOMAIN rs[j][field] => i <= j
        IN rs[first][field][k]]

mergeScoreResults(rs) ==
    LET questions ==
            SortScoreQuestions(FirstByNumber(AllQuestions(rs), {}))
    IN  [questions |-> questions,
         objectiveScores |-> MergeScoreMaps(rs, "objectiveScores"),
         subjectiveScores |-> MergeScoreMaps(rs, "subjectiveScores"),
         totalScore |-> MergedTotalScore(rs),
         totalMaxScore |-> SumOf(questions, "max_score")]

MergeScoreIdle ==
    /\ msResults = <<>>
    /\ msPc = "notCalled"
    /\ msMerged = NoResult

MergeScoreInit ==
    /\ msResults \in SeqsUpTo(PageResults, MaxPages)
    /\ msPc = "notCalled"
    /\ msMerged = NoResult

\* mergeScoreResults runs on the page results; it awaits nothing.
MergeScoreResults ==
    /\ msPc = "notCalled"
    /\ msPc' = "returned"
    /\ msMerged' = mergeScoreResults(msResults)
    /\ UNCHANGED msResults
    /\ UNCHANGED exceptMergeScore

MergeScoreNext == MergeScoreResults

\* ---------------------------------------------------------------------------
\* Part 4b: ScoreCalculationService.mergeAnswerRecognition
\* ---------------------------------------------------------------------------
\* QuestionRegion, QuestionAnswer, RegionAnswerResult, AnswerRecognitionResponse
QuestionRegion(ty, x0, y0, x1, y1) ==
    [type |-> ty, x_min_percent |-> x0, y_min_percent |-> y0,
     x_max_percent |-> x1, y_max_percent |-> y1]
QuestionAnswer(qn, ans) == [question_number |-> qn, answer |-> ans]
RegionAnswerResult(ty, reg, qs) == [type |-> ty, region |-> reg, questions |-> qs]
AnswerRecognitionResponse(regs) == [regions |-> regs]

FullImage(ty) == QuestionRegion(ty, 0, 0, 100, 100)

\* Regions as recognition returns them and as a request may carry them: choice
\* regions with their own boxes, one with a question number recognised twice,
\* one whose recognition failed; essay regions; a region of the former type
\* fill; question numbers as numbers and as strings.
RegionSamples ==
    {RegionAnswerResult("choice", QuestionRegion("choice", 10, 10, 50, 40),
                        <<QuestionAnswer(Num(1), "A")>>),
     RegionAnswerResult("choice", QuestionRegion("choice", 20, 5, 60, 30),
                        <<QuestionAnswer(Num(1), "B")>>),
     RegionAnswerResult("choice", QuestionRegion("choice", 20, 5, 60, 30),
                        <<QuestionAnswer(Str(1), "B")>>),
     RegionAnswerResult("choice", QuestionRegion("choice", 10, 10, 50, 40),
                        <<QuestionAnswer(Num(1), "A"), QuestionAnswer(Num(1), "B")>>),
     RegionAnswerResult("choice", QuestionRegion("choice", 20, 5, 60, 30), <<>>),
     RegionAnswerResult("essay", FullImage("essay"),
                        <<QuestionAnswer(Num(1), "A")>>),
     RegionAnswerResult("essay", FullImage("essay"),
                        <<QuestionAnswer(Num(2), "B"), QuestionAnswer(Num(1), "B")>>),
     RegionAnswerResult("fill", QuestionRegion("fill", 5, 50, 95, 90),
                        <<QuestionAnswer(Num(1), "B")>>)}

\* Results of no, one and two regions.
AnswerResultSamples ==
    {AnswerRecognitionResponse(regs) :
        regs \in {<<>>} \cup {<<r>> : r \in RegionSamples}
                       \cup {<<r1, r2>> : r1 \in RegionSamples, r2 \in RegionSamples}}

Max(a, b) == IF a >= b THEN a ELSE b

\* for (const result of results) for (const region of result.regions)
RECURSIVE AllRegions(_)
AllRegions(rs) ==
    IF rs = <<>> THEN <<>> ELSE Head(rs).regions \o AllRegions(Tail(rs))

\* regionMap.has(type)
RegionMapHas(regs, ty) == \E i \in DOMAIN regs : regs[i].type = ty

\* regionMap.get(type) after the loops: the region of the first occurrence of
\* the type; for choice the union bounding box of every occurrence.
RECURSIVE RegionMapGet(_, _)
RegionMapGet(regs, ty) ==
    LET last == regs[Len(regs)]
        before == SubSeq(regs, 1, Len(regs) - 1)
    IN  IF last.type # ty THEN RegionMapGet(before, ty)
        ELSE IF ~RegionMapHas(before, ty) THEN last.region
        ELSE LET existingRegion == RegionMapGet(before, ty) IN
             IF ty = "choice"
             THEN QuestionRegion("choice",
                    Min(existingRegion.x_min_percent, last.region.x_min_percent),
                    Min(existingRegion.y_min_percent, last.region.y_min_percent),
                    Max(existingRegion.x_max_percent, last.region.x_max_percent),
                    Max(existingRegion.y_max_percent, last.region.y_max_percent))
             ELSE existingRegion

\* const key = `${region.type}_${question.question_number}`: the question
\* number is written into a string, the number 1 and the string "1" give the
\* same key.
QuestionKey(ty, qn) == <<ty, ObjectKey(qn)>>

\* The questions of one region with their keys.
KeyedQuestions(region) ==
    [i \in DOMAIN region.questions |->
        [key |-> QuestionKey(region.type, region.questions[i].question_number),
         question |-> region.questions[i]]]

RECURSIVE AllKeyedQuestions(_)
AllKeyedQuestions(regs) ==
    IF regs = <<>> THEN <<>>
    ELSE KeyedQuestions(Head(regs)) \o AllKeyedQuestions(Tail(regs))

\* questionMap.entries(): if (!questionMap.has(key)) questionMap.set(key, question)
RECURSIVE LastByKey(_, _)
LastByKey(entries, seen) ==
    IF entries = <<>> THEN <<>>
    ELSE LET e == Head(entries) IN
         IF \E i \in DOMAIN Tail(entries) : Tail(entries)[i].key = e.key
         THEN LastByKey(Tail(entries), seen)
         ELSE <<e>> \o LastByKey(Tail(entries), seen)
RECURSIVE FirstByKey(_, _)
FirstByKey(entries, seen) ==
    IF entries = <<>> THEN <<>>
    ELSE LET e == Head(entries) IN
         IF e.key \in seen
         THEN FirstByKey(Tail(entries), seen)
         ELSE <<e>> \o FirstByKey(Tail(entries), seen \cup {e.key})

\* const type = rawType === 'fill' ? 'essay' : rawType
GroupTypeAllEssay(rawType) == "essay"
GroupType(rawType) == IF rawType = "fill" THEN "essay" ELSE rawType

\* const rawType = key.split('_')[0]
RawType(key) == key[1]

\* The keys of questionsByType in insertion order.
RECURSIVE TypesInOrder(_, _)
TypesInOrder(entries, seen) ==
    IF entries = <<>> THEN <<>>
    ELSE LET ty == GroupType(RawType(Head(entries).key)) IN
         IF ty \in seen
         THEN TypesInOrder(Tail(entries), seen)
         ELSE <<ty>> \o TypesInOrder(Tail(entries), seen \cup {ty})

\* questionsByType.get(type), before it is sorted.
QuestionsByType(entries, ty) ==
    LET OfType(e) == GroupType(RawType(e.key)) = ty
        selected == SelectSeq(entries, OfType)
    IN  [i \in DOMAIN selected |-> selected[i].question]

\* compareQuestionNumbers: two numbers by difference, otherwise
\* String(a).localeCompare(String(b), undefined, {numeric: true}), which orders
\* strings of digits by their value.
compareQuestionNumbers(a, b) == a.v - b.v

RECURSIVE InsertAnswerQuestion(_, _)
InsertAnswerQuestion(q, sorted) ==
    IF sorted = <<>> THEN <<q>>
    ELSE IF compareQuestionNumbers(Head(sorted).question_number,
                                   q.question_number) <= 0
         THEN <<Head(sorted)>> \o InsertAnswerQuestion(q, Tail(sorted))
         ELSE <<q>> \o sorted

\* questions.sort(...), a stable sort.
RECURSIVE SortAnswerQuestions(_)
SortAnswerQuestions(qs) ==
    IF qs = <<>> THEN <<>>
    ELSE InsertAnswerQuestion(qs[Len(qs)],
                              SortAnswerQuestions(SubSeq(qs, 1, Len(qs) - 1)))

\* One element of mergedRegions.
MergedRegion(regs, entries, ty) ==
    RegionAnswerResult(ty,
        IF RegionMapHas(regs, ty) THEN RegionMapGet(regs, ty) ELSE FullImage(ty),
        SortAnswerQuestions(QuestionsByType(entries, ty)))

RECURSIVE InsertMergedRegion(_, _)
InsertMergedRegion(r, sorted) ==
    IF sorted = <<>> THEN <<r>>
    ELSE IF compareQuestionNumbers(Head(sorted).questions[1].question_number,
                                   r.questions[1].question_number) <= 0
         THEN <<Head(sorted)>> \o InsertMergedRegion(r, Tail(sorted))
         ELSE <<r>> \o sorted

\* mergedRegions.sort(...) by the first question number of each region.
RECURSIVE SortMergedRegions(_)
SortMergedRegions(regs) ==
    IF regs = <<>> THEN <<>>
    ELSE InsertMergedRegion(regs[Len(regs)],
                            SortMergedRegions(SubSeq(regs, 1, Len(regs) - 1)))

mergeAnswerRecognition(rs) ==
    LET regs == AllRegions(rs)
        entries == FirstByKey(AllKeyedQuestions(regs), {})
        types == TypesInOrder(entries, {})
    IN  AnswerRecognitionResponse(
            SortMergedRegions([i \in DOMAIN types |->
                                  MergedRegion(regs, entries, types[i])]))

MergeAnswerIdle ==
    /\ maResults = <<>>
    /\ maPc = "notCalled"
    /\ maMerged = AnswerRecognitionResponse(<<>>)

MergeAnswerInit ==
    /\ maResults \in SeqsUpTo(AnswerResultSamples, MaxPages)
    /\ maPc = "notCalled"
    /\ maMerged = AnswerRecognitionResponse(<<>>)

\* mergeAnswerRecognition runs on the recognition results; it awaits nothing.
MergeAnswerRecognition ==
    /\ maPc = "notCalled"
    /\ maPc' = "returned"
    /\ maMerged' = mergeAnswerRecognition(maResults)
    /\ UNCHANGED maResults
    /\ UNCHANGED exceptMergeAnswer

MergeAnswerNext == MergeAnswerRecognition


\* ---------------------------------------------------------------------------
\* Part 4c: question numbers as keys
\* ---------------------------------------------------------------------------
KeySamples == {Num(1), Str(1), Num(2)}

\* The places where a question number is looked up or used as a key.
KeyUses ==
    {"mergeAnswerRecognition", "mergeScoreQuestions", "mergeScoreMaps",
     "maxScoreLookup", "answerLookup"}

\* for (const region of answerRecognition.regions)
\*   for (const question of region.questions)
\*     if (question.question_number === questionNumber) return question.answer;
\* return undefined;
RECURSIVE extractAnswerByQuestionNumber(_, _)
extractAnswerByQuestionNumber(regions, questionNumber) ==
    IF regions = <<>> THEN [found |-> FALSE, answer |-> ""]
    ELSE LET questions == Head(regions).questions
             hits == {i \in DOMAIN questions :
                         questions[i].question_number = questionNumber}
         IN IF hits # {}
            THEN [found |-> TRUE,
                  answer |-> questions[CHOOSE i \in hits :
                                          \A j \in hits : i <= j].answer]
            ELSE extractAnswerByQuestionNumber(Tail(regions), questionNumber)

\* An answer sheet whose only region holds one question.
OneAnswer(qn, answer) ==
    AnswerRecognitionResponse(
        <<RegionAnswerResult("choice", QuestionRegion("choice", 10, 10, 50, 40),
                             <<QuestionAnswer(qn, answer)>>)>>)

Treated(same) == IF same THEN "same" ELSE "different"

KeysIdle ==
    /\ qkFirst = Num(1)
    /\ qkSecond = Num(1)
    /\ qkSeen = [use \in KeyUses |-> "notCalled"]

KeysInit ==
    /\ qkFirst \in KeySamples
    /\ qkSecond \in KeySamples
    /\ qkSeen = [use \in KeyUses |-> "notCalled"]

\* mergeAnswerRecognition on two pages, one holding the first number and one
\* the second: one merged question when the numbers are one key.
MergeAnswersOfPair ==
    /\ qkSeen["mergeAnswerRecognition"] = "notCalled"
    /\ LET merged == mergeAnswerRecognition(<<OneAnswer(qkFirst, "A"),
                                              OneAnswer(qkSecond, "B")>>)
       IN qkSeen' = [qkSeen EXCEPT !["mergeAnswerRecognition"] =
                        Treated(Len(merged.regions[1].questions) = 1)]
    /\ UNCHANGED <<qkFirst, qkSecond>>
    /\ UNCHANGED exceptKeys

\* mergeScoreResults on two page results, one grading the first number and
\* one the second.
MergeScoresOfPair ==
    /\ qkSeen["mergeScoreQuestions"] = "notCalled"
    /\ LET merged ==
              mergeScoreResults(
                  <<ScoreResultOf(<<PageQuestion(qkFirst, "choice", 1, 1)>>),
                    ScoreResultOf(<<PageQuestion(qkSecond, "choice", 0, 1)>>)>>)
       IN qkSeen' = [qkSeen EXCEPT
                        !["mergeScoreQuestions"] =
                            Treated(Len(merged.questions) = 1),
                        !["mergeScoreMaps"] =
                            Treated(Cardinality(DOMAIN merged.objectiveScores) = 1)]
    /\ UNCHANGED <<qkFirst, qkSecond>>
    /\ UNCHANGED exceptKeys

\* parseScoreResponse looks up the max score of a question of the second
\* number in a blank sheet that declares the first.
MaxScoreLookup ==
    /\ qkSeen["maxScoreLookup"] = "notCalled"
    /\ LET map == ScoresMap(<<BlankScore(qkFirst, 2)>>)
           q == Question(qkSecond, "choice", Num(1), Num(1))
       IN qkSeen' = [qkSeen EXCEPT !["maxScoreLookup"] =
                        Treated(CorrectMaxScore(map, q) = 2)]
    /\ UNCHANGED <<qkFirst, qkSecond>>
    /\ UNCHANGED exceptKeys

\* gradeSheet looks up the answer of the second number in answers that hold
\* the first.
AnswerLookup ==
    /\ qkSeen["answerLookup"] = "notCalled"
    /\ qkSeen' = [qkSeen EXCEPT !["answerLookup"] =
                     Treated(extractAnswerByQuestionNumber(
                                 OneAnswer(qkFirst, "A").regions, qkSecond).found)]
    /\ UNCHANGED <<qkFirst, qkSecond>>
    /\ UNCHANGED exceptKeys

KeysNext ==
    \/ MergeAnswersOfPair
    \/ MergeScoresOfPair
    \/ MaxScoreLookup
    \/ AnswerLookup

\* ---------------------------------------------------------------------------
\* Part 5: RecognitionService.recognizeStudentAnswers
\* ---------------------------------------------------------------------------
MaxRegions == 3

\* The i-th region of the blank sheet: regions differ in their boxes.
BlankRegion(ty, i) == QuestionRegion(ty, 10, 20 * i, 90, 20 * i + 10)
BlankRegionLists ==
    {regs \in SeqsUpTo({BlankRegion(ty, i) : ty \in {"choice", "essay"},
                                             i \in 1..MaxRegions}, MaxRegions) :
        \A i \in DOMAIN regs : regs[i].y_min_percent = 20 * i}

\* blankSheetRecognition.regions.filter((r) => r.type === 'choice')
IsChoice(r) == r.type = "choice"
choiceRegions(regs) == SelectSeq(regs, IsChoice)

\* How the two awaited calls of a choice branch can end.
ChoiceOutcomes ==
    {[kind |-> "cropError", questions |-> <<>>],
     [kind |-> "recognizeError", questions |-> <<>>],
     [kind |-> "ok", questions |-> <<>>],
     [kind |-> "ok", questions |-> <<QuestionAnswer(Num(1), "A")>>]}

\* How recognizeAnswersFromImage can end: an error, or regions of which the
\* prompt should have left only essay regions.
EssayOutcomes ==
    {[kind |-> "error", regions |-> <<>>]}
    \cup {[kind |-> "ok", regions |-> regs] :
            regs \in {<<>>,
                      <<RegionAnswerResult("essay", FullImage("essay"),
                                           <<QuestionAnswer(Num(2), "B")>>)>>,
                      <<RegionAnswerResult("choice", FullImage("choice"),
                                           <<QuestionAnswer(Num(1), "A")>>),
                        RegionAnswerResult("essay", FullImage("essay"),
                                           <<QuestionAnswer(Num(2), "B")>>)>>,
                      <<RegionAnswerResult("essay", FullImage("essay"),
                                           <<QuestionAnswer(Num(3), "C")>>),
                        RegionAnswerResult("essay", FullImage("essay"),
                                           <<QuestionAnswer(Num(2), "B")>>)>>}}

Pending == [settled |-> "pending", value |-> <<>>]
Fulfilled(v) == [settled |-> "fulfilled", value |-> v]
Rejected == [settled |-> "rejected", value |-> <<>>]

\* The promise of one choice branch once its async function ends: the catch
\* block returns an entry with an empty questions list.
ChoicePromiseUncaught(region, outcome) ==
    IF outcome.kind = "ok"
    THEN Fulfilled(RegionAnswerResult("choice", region, outcome.questions))
    ELSE Rejected
ChoicePromise(region, outcome) ==
    Fulfilled(RegionAnswerResult("choice", region,
                                 IF outcome.kind = "ok" THEN outcome.questions
                                 ELSE <<>>))

\* essayAnswersPromise once it settles: .then filters the essay regions,
\* .catch returns no regions.
IsEssay(r) == r.type = "essay"
EssayPromise(outcome) ==
    Fulfilled(IF outcome.kind = "ok" THEN SelectSeq(outcome.regions, IsEssay)
              ELSE <<>>)

\* [...choiceAnswers, ...essayRegionsFromImage]: Promise.all keeps the order of
\* the promises it was given.
RECURSIVE InSettlingOrder(_, _, _)
InSettlingOrder(choice, essay, order) ==
    IF order = <<>> THEN <<>>
    ELSE (IF Head(order).branch = 0 THEN essay.value
          ELSE <<choice[Head(order).branch].value>>)
         \o InSettlingOrder(choice, essay, Tail(order))
allRegions(choice, essay, order) ==
    [i \in DOMAIN choice |-> choice[i].value] \o essay.value

RecogIdle ==
    /\ rsRegions = <<>>
    /\ rsPc = "notCalled"
    /\ rsChoicePc = <<>>
    /\ rsChoice = <<>>
    /\ rsEssay = Pending
    /\ rsOrder = <<>>
    /\ rsResult = <<>>

RecogInit ==
    /\ rsRegions \in BlankRegionLists
    /\ rsPc = "notCalled"
    /\ rsChoicePc = <<>>
    /\ rsChoice = <<>>
    /\ rsEssay = Pending
    /\ rsOrder = <<>>
    /\ rsResult = <<>>

\* recognizeStudentAnswers runs to its await: every choice branch has called
\* cropRegion, the full-image call is under way.
RecognizeStudentAnswers ==
    /\ rsPc = "notCalled"
    /\ rsPc' = "awaitAll"
    /\ rsChoicePc' = [i \in DOMAIN choiceRegions(rsRegions) |-> "cropRegion"]
    /\ rsChoice' = [i \in DOMAIN choiceRegions(rsRegions) |-> Pending]
    /\ UNCHANGED <<rsRegions, rsEssay, rsOrder, rsResult>>
    /\ UNCHANGED exceptRecog

\* await Promise.all([...]) after a branch settled: the call throws at the
\* first rejected promise and returns once every promise is fulfilled.
AfterSettling(choice, essay, order) ==
    IF rsPc # "awaitAll"
    THEN UNCHANGED <<rsPc, rsResult>>
    ELSE IF essay.settled = "rejected"
            \/ \E i \in DOMAIN choice : choice[i].settled = "rejected"
    THEN rsPc' = "threw" /\ UNCHANGED rsResult
    ELSE IF essay.settled = "fulfilled"
            /\ \A i \in DOMAIN choice : choice[i].settled = "fulfilled"
    THEN rsPc' = "returned" /\ rsResult' = allRegions(choice, essay, order)
    ELSE UNCHANGED <<rsPc, rsResult>>

\* cropRegion of choice branch i returns: recognizeAnswers is called.
CropReturns(i) ==
    /\ rsPc # "notCalled"
    /\ rsChoicePc[i] = "cropRegion"
    /\ rsChoicePc' = [rsChoicePc EXCEPT ![i] = "recognizeAnswers"]
    /\ UNCHANGED <<rsRegions, rsPc, rsChoice, rsEssay, rsOrder, rsResult>>
    /\ UNCHANGED exceptRecog

\* Choice branch i ends: cropRegion throws, recognizeAnswers throws or returns.
ChoiceBranchEnds(i, outcome) ==
    /\ rsPc # "notCalled"
    /\ \/ rsChoicePc[i] = "cropRegion" /\ outcome.kind = "cropError"
       \/ rsChoicePc[i] = "recognizeAnswers" /\ outcome.kind # "cropError"
    /\ rsChoicePc' = [rsChoicePc EXCEPT ![i] = "ended"]
    /\ rsChoice' = [rsChoice EXCEPT
                      ![i] = ChoicePromise(choiceRegions(rsRegions)[i], outcome)]
    /\ rsOrder' = Append(rsOrder, [branch |-> i, outcome |-> outcome])
    /\ AfterSettling(rsChoice', rsEssay, rsOrder')
    /\ UNCHANGED <<rsRegions, rsEssay>>
    /\ UNCHANGED exceptRecog

\* recognizeAnswersFromImage of the whole page ends.
EssayBranchEnds(outcome) ==
    /\ rsPc # "notCalled"
    /\ rsEssay = Pending
    /\ rsEssay' = EssayPromise(outcome)
    /\ rsOrder' = Append(rsOrder, [branch |-> 0, outcome |-> outcome])
    /\ AfterSettling(rsChoice, rsEssay', rsOrder')
    /\ UNCHANGED <<rsRegions, rsChoicePc, rsChoice>>
    /\ UNCHANGED exceptRecog

RecogNext ==
    \/ RecognizeStudentAnswers
    \/ \E i \in DOMAIN rsChoicePc : CropReturns(i)
    \/ \E i \in DOMAIN rsChoicePc, outcome \in ChoiceOutcomes :
         ChoiceBranchEnds(i, outcome)
    \/ \E outcome \in EssayOutcomes : EssayBranchEnds(outcome)

\* ---------------------------------------------------------------------------
\* Part 6a: ResponseParserService.parseResponse
\* ---------------------------------------------------------------------------
MaxRawRegions == 2

\* JSON values.  A field is undefined (missing), a number, a string, null or
\* an array; an entry of `regions` is null or an object.
Undefined == [t |-> "undefined", v |-> 0]
NotArray == [t |-> "string", items |-> <<>>]
Missing == [t |-> "undefined", items |-> <<>>]
Array(items) == [t |-> "array", items |-> items]

RawRegion(ty, x0, y0, x1, y1) ==
    [t |-> "object", type |-> ty, x_min_percent |-> x0, y_min_percent |-> y0,
     x_max_percent |-> x1, y_max_percent |-> y1]
NullEntry ==
    [t |-> "null", type |-> "undefined", x_min_percent |-> Undefined,
     y_min_percent |-> Undefined, x_max_percent |-> Undefined,
     y_max_percent |-> Undefined]

\* Region entries a model writes: a good box, a box on the edges of the page,
\* boxes beyond the page, an inverted box, a former type, a coordinate written
\* as a string, a missing coordinate, null.
RawRegionSamples ==
    {RawRegion("choice", Num(10), Num(10), Num(50), Num(40)),
     RawRegion("essay", Num(1), Num(0), Num(99), Num(100)),
     RawRegion("choice", Num(103), Num(10), Num(110), Num(20)),
     RawRegion("essay", Num(10), Num(-10), Num(50), Num(-5)),
     RawRegion("choice", Num(50), Num(10), Num(10), Num(40)),
     RawRegion("fill", Num(10), Num(10), Num(50), Num(40)),
     RawRegion("choice", Str(10), Num(10), Num(50), Num(40)),
     RawRegion("essay", Num(10), Num(10), Num(50), Undefined),
     NullEntry}

RawScore(qn, sc) == [t |-> "object", questionNumber |-> qn, score |-> sc]
NullScore == [t |-> "null", questionNumber |-> Undefined, score |-> Undefined]
ScoresFieldSamples ==
    {Missing, NotArray, Array(<<>>),
     Array(<<RawScore(Num(1), Num(2))>>),
     Array(<<RawScore(Num(1), Num(0)), RawScore(Str(1), Num(2))>>),
     Array(<<NullScore, RawScore(Num(0), Num(2))>>)}

RegionsFieldSamples ==
    {Missing, NotArray}
    \cup {Array(items) : items \in SeqsUpTo(RawRegionSamples, MaxRawRegions)}

\* What JSON.parse can return: null, a number, a string, an empty array (none
\* of them has a property `regions`), or an object.
JsonValue(ty, regs, scs) == [t |-> ty, regions |-> regs, scores |-> scs]
JsonObjects ==
    {JsonValue("object", regs, Array(<<>>)) : regs \in RegionsFieldSamples}
    \cup {JsonValue("object", regs, scs) :
            regs \in {Missing, NotArray, Array(<<>>),
                      Array(<<RawRegion("choice", Num(10), Num(10), Num(50), Num(40)),
                              NullEntry>>)},
            scs \in ScoresFieldSamples}
JsonValues ==
    {JsonValue(ty, Missing, Missing) : ty \in {"null", "number", "string", "array"}}
    \cup JsonObjects

\* A response text, as the pieces the parser tells apart: prose without
\* braces, a ``` fence (with or without `json`), a comma, the text of a JSON
\* value, the text of an object cut off before its last brace.  The text of a
\* value may omit the field names of y_min_percent / y_max_percent.
Piece(k, v, omits) == [k |-> k, v |-> v, omitsFieldNames |-> omits]
Prose == Piece("prose", JsonValue("null", Missing, Missing), FALSE)
Fence == Piece("fence", JsonValue("null", Missing, Missing), FALSE)
Comma == Piece("comma", JsonValue("null", Missing, Missing), FALSE)
CutOff == Piece("cutOff", JsonValue("null", Missing, Missing), FALSE)
JsonText(v) == Piece("json", v, FALSE)
JsonTextOmitting(v) == Piece("json", v, TRUE)

ResponseTexts ==
    {<<>>, <<Prose>>, <<CutOff>>, <<Prose, CutOff>>, <<Fence, CutOff>>}
    \cup UNION {{<<JsonText(v)>>,
                 <<Fence, JsonText(v), Fence>>,
                 <<Prose, Fence, JsonText(v), Fence, Prose>>,
                 <<Prose, JsonText(v)>>,
                 <<JsonText(v), Prose>>,
                 <<JsonText(v), Comma>>} : v \in JsonValues}
    \cup {<<JsonTextOmitting(v)>> :
            v \in {w \in JsonObjects : w.regions.t = "array"
                                       /\ w.regions.items # <<>>}}

HasOpenBrace(piece) ==
    piece.k = "cutOff" \/ (piece.k = "json" /\ piece.v.t = "object")
HasCloseBrace(piece) == piece.k = "json" /\ piece.v.t = "object"

\* Strategy 1: content.match(/```(?:json)?\s*([\s\S]*?)```/), the text between
\* the first fence and the next one.
BetweenFences(text) ==
    LET fences == {i \in DOMAIN text : text[i].k = "fence"} IN
    IF Cardinality(fences) < 2 THEN text
    ELSE LET first == CHOOSE i \in fences : \A j \in fences : i <= j
             next == CHOOSE i \in fences \ {first} :
                        \A j \in fences \ {first} : i <= j
         IN SubSeq(text, first + 1, next - 1)

\* Strategy 2: unless the text starts with '{', cut it at the first '{'.
FromFirstBrace(text) ==
    LET braces == {i \in DOMAIN text : HasOpenBrace(text[i])} IN
    IF braces = {} \/ HasOpenBrace(text[1]) THEN text
    ELSE SubSeq(text, CHOOSE i \in braces : \A j \in braces : i <= j, Len(text))

\* Strategy 3: when the text ends with ',' or not with '}', cut it behind the
\* last '}'.
ToLastBrace(text) ==
    LET braces == {i \in DOMAIN text : HasCloseBrace(text[i])} IN
    IF text = <<>> \/ braces = {} \/ HasCloseBrace(text[Len(text)]) THEN text
    ELSE SubSeq(text, 1, CHOOSE i \in braces : \A j \in braces : j <= i)

\* The patterns of fixJsonFormatErrors, "x_min_percent": digits, digits and
\* "x_max_percent": digits, digits, match unsigned numbers only.
IsDigits(coord) == coord.t = "number" /\ coord.v >= 0
NamesRestorable(entry) ==
    \/ entry.t = "null"
    \/ /\ entry.y_min_percent.t = "undefined"
          \/ (IsDigits(entry.x_min_percent) /\ IsDigits(entry.y_min_percent))
       /\ entry.y_max_percent.t = "undefined"
          \/ (IsDigits(entry.x_max_percent) /\ IsDigits(entry.y_max_percent))

\* fixJsonFormatErrors: the missing field names are written back where the
\* patterns match.
fixJsonFormatErrors(text) ==
    [i \in DOMAIN text |->
        IF /\ text[i].omitsFieldNames
           /\ \A k \in DOMAIN text[i].v.regions.items :
                 NamesRestorable(text[i].v.regions.items[k])
        THEN [text[i] EXCEPT !.omitsFieldNames = FALSE]
        ELSE text[i]]

\* JSON.parse: the text must be the text of one value, nothing else.
JsonParse(text) ==
    IF Len(text) = 1 /\ text[1].k = "json" /\ ~text[1].omitsFieldNames
    THEN [ok |-> TRUE, value |-> text[1].v]
    ELSE [ok |-> FALSE, value |-> JsonValue("null", Missing, Missing)]

\* The text handed to JSON.parse.
JsonContent(content) ==
    fixJsonFormatErrors(ToLastBrace(FromFirstBrace(BetweenFences(content))))

\* validateRegion(region)
validateRegion(region) ==
    /\ region.t = "object"
    /\ region.type \in {"choice", "essay"}
    /\ region.x_min_percent.t = "number"
    /\ region.y_min_percent.t = "number"
    /\ region.x_max_percent.t = "number"
    /\ region.y_max_percent.t = "number"
    /\ \A coord \in {region.x_min_percent.v, region.y_min_percent.v,
                     region.x_max_percent.v, region.y_max_percent.v} :
          ~(coord < 0 \/ coord > 100)
    /\ ~(region.x_min_percent.v >= region.x_max_percent.v
         \/ region.y_min_percent.v >= region.y_max_percent.v)

\* validateScore(score); every sampled number is an integer, every sampled
\* string is non-empty.
validateScore(score) ==
    /\ score.t = "object"
    /\ score.questionNumber.t \in {"number", "string"}
    /\ score.score.t = "number"
    /\ score.questionNumber.t = "number" => ~(score.questionNumber.v <= 0)
    /\ ~(score.score.v <= 0)

\* expandRegionCoordinates(region): 2 points outwards, clamped to the page.
expandRegionCoordinates(region) ==
    QuestionRegion(region.type,
                   Max(0, region.x_min_percent.v - 2),
                   Max(0, region.y_min_percent.v - 2),
                   Min(100, region.x_max_percent.v + 2),
                   Min(100, region.y_max_percent.v + 2))

\* Array.isArray(parsed.regions) ? parsed.regions : []
ArrayOrEmpty(field) == IF field.t = "array" THEN field.items ELSE <<>>

\* regions.filter((region) => this.validateRegion(region))
validRegions(regions) == SelectSeq(regions, validateRegion)

\* scores.filter((score) => this.validateScore(score))
allScores(scores) == scores
validScores(scores) == SelectSeq(scores, validateScore)

expandedRegions(regions) ==
    [i \in DOMAIN regions |-> expandRegionCoordinates(regions[i])]

EmptyRecognition == [regions |-> <<>>, scores |-> <<>>]

\* parseResponse(content): JSON.parse and everything behind it run inside one
\* try block, so reading `regions` of a parsed null throws as a syntax error
\* does.
parseResponse(content) ==
    LET parsed == JsonParse(JsonContent(content)) IN
    IF ~parsed.ok \/ parsed.value.t = "null"
    THEN [threw |-> TRUE, result |-> EmptyRecognition]
    ELSE [threw |-> FALSE,
          result |->
            [regions |-> expandedRegions(validRegions(
                            ArrayOrEmpty(parsed.value.regions))),
             scores |-> validScores(ArrayOrEmpty(parsed.value.scores))]]

ParseIdle ==
    /\ prContent = <<>>
    /\ prPc = "notCalled"
    /\ prResult = EmptyRecognition

ParseInit ==
    /\ prContent \in ResponseTexts
    /\ prPc = "notCalled"
    /\ prResult = EmptyRecognition

\* parseResponse runs on the response text; it awaits nothing.
ParseResponse ==
    /\ prPc = "notCalled"
    /\ LET r == parseResponse(prContent) IN
        /\ prPc' = IF r.threw THEN "threw" ELSE "returned"
        /\ prResult' = r.result
    /\ UNCHANGED prContent
    /\ UNCHANGED exceptParse

ParseNext == ParseResponse


\* ---------------------------------------------------------------------------
\* Part 6b: QwenVLService.recognizeRegions
\* ---------------------------------------------------------------------------
\* `parsed` of the structured-output response: nothing, or an object.
NoParsed == JsonValue("null", Missing, Missing)
StructuredObjects ==
    {JsonValue("object", regs, scs) :
        regs \in RegionsFieldSamples, scs \in ScoresFieldSamples}
StructuredResults == {NoParsed} \cup StructuredObjects
EmptyStructuredResults ==
    {parsed \in StructuredObjects :
        ArrayOrEmpty(parsed.regions) = <<>> /\ ArrayOrEmpty(parsed.scores) = <<>>}

\* `content` of a model response: empty, prose, or the text of a JSON value.
ContentSamples == {<<>>, <<Prose>>} \cup {<<JsonText(v)>> : v \in JsonValues}

\* a < b as JavaScript evaluates it on a number and a number or numeric
\* string; undefined compares false.
JsLess(a, b) == a.t # "undefined" /\ b.t # "undefined" /\ a.v < b.v

\* region.x_min_percent < region.x_max_percent &&
\* region.y_min_percent < region.y_max_percent
minBelowMax(region) ==
    /\ JsLess(region.x_min_percent, region.x_max_percent)
    /\ JsLess(region.y_min_percent, region.y_max_percent)

\* Reading a coordinate of a null entry is a TypeError.
FilterThrows(regions) == \E i \in DOMAIN regions : regions[i].t = "null"

\* The result of the structured path: regions filtered by min < max and
\* expanded, scores filtered by validateScore.
StructuredRecognition(regions, scores) ==
    [regions |-> expandedRegions(SelectSeq(regions, minBelowMax)),
     scores |-> validScores(scores)]

\* manualResult after try { parseResponse(content) } catch {}; a blank
\* content is not parsed.  A null manualResult is the empty result here: both
\* are treated alike by the tests that follow.
ManualResult(content) ==
    IF content = <<>> THEN EmptyRecognition ELSE parseResponse(content).result

NeverHasContent(result) == FALSE
HasContent(result) == Len(result.regions) > 0 \/ Len(result.scores) > 0

\* The counts a parse or a structured result is judged by.
Outcome(threw, result) ==
    [threw |-> threw, regions |-> Len(result.regions), scores |-> Len(result.scores)]
NoOutcome == Outcome(FALSE, EmptyRecognition)

\* Entries of the observed history: model calls issued, what came back, and
\* the texts handed to parseResponse with what the parse gave.
Event(event) == [event |-> event, gave |-> NoOutcome]
Parsed(event, content) ==
    [event |-> event,
     gave |-> Outcome(parseResponse(content).threw, parseResponse(content).result)]

\* MAX_IMAGE_SIZE = 10 * 1024 * 1024
MAX_IMAGE_SIZE == 10485760
ImageSizeSamples == {1, MAX_IMAGE_SIZE, MAX_IMAGE_SIZE + 1}

\* How a fetch of the image url settles: it rejects, or resolves with a
\* response that is ok or not and carries a content-length header or none.
\* The header of a HEAD response is the size of the image; that of the ranged
\* GET (bytes=0-0) is 1 when the host honours the range and the size of the
\* image when it does not.
FetchRejects == [kind |-> "rejected", ok |-> FALSE, length |-> "none"]
FetchResponse(ok, length) == [kind |-> "response", ok |-> ok, length |-> length]
HeadOutcomes ==
    {FetchRejects, FetchResponse(TRUE, "whole"), FetchResponse(TRUE, "none"),
     FetchResponse(FALSE, "none"), FetchResponse(FALSE, "whole")}
RangeOutcomes ==
    {FetchRejects, FetchResponse(TRUE, "range"), FetchResponse(TRUE, "whole"),
     FetchResponse(TRUE, "none"), FetchResponse(FALSE, "none")}

\* parseInt(contentLength, 10) of the header of a response for an image of
\* the given size.
ContentLength(response, imageSize) ==
    IF response.length = "range" THEN 1 ELSE imageSize

\* if (contentLength) { const size = parseInt(contentLength, 10);
\*                      if (size > MAX_IMAGE_SIZE) throw new BadRequestException }
ExceedsMaxImageSize(response, imageSize) ==
    response.length # "none" /\ ContentLength(response, imageSize) > MAX_IMAGE_SIZE

\* Where an error of the direct model call lands: in the try/catch around the
\* call, after which the function goes on to its return statement; without
\* it, in the catch block of the function.
DirectErrorUncaught(at) == "fallbackInvoke"
DirectErrorLandsAt(at) == "returned"

RegionsIdle ==
    /\ rrImageSize = 1
    /\ rrPc = "notCalled"
    /\ rrPath = "none"
    /\ rrResult = EmptyRecognition
    /\ rrThrown = "none"
    /\ rrLog = <<>>

RegionsInit ==
    /\ rrImageSize \in ImageSizeSamples
    /\ rrPc = "notCalled"
    /\ rrPath = "none"
    /\ rrResult = EmptyRecognition
    /\ rrThrown = "none"
    /\ rrLog = <<>>

\* validateImageSize passed, or gave up: the structured-output call is issued.
StructuredInvokeIssued ==
    /\ rrPc' = "structuredInvoke"
    /\ rrLog' = Append(rrLog, Event("structuredInvoke"))
    /\ UNCHANGED <<rrImageSize, rrPath, rrResult, rrThrown>>

\* validateImageSize throws its BadRequestException out of recognizeRegions.
ImageRejected ==
    /\ rrPc' = "threw"
    /\ rrThrown' = "imageSize"
    /\ UNCHANGED <<rrImageSize, rrPath, rrResult, rrLog>>

\* recognizeRegions is called: validateImageSize fetches the url with HEAD.
RecognizeRegions ==
    /\ rrPc = "notCalled"
    /\ rrPc' = "headFetch"
    /\ UNCHANGED <<rrImageSize, rrPath, rrResult, rrThrown, rrLog>>
    /\ UNCHANGED exceptRegions

\* The HEAD fetch settles.  A rejection is caught and logged; a response that
\* is not ok leads to the ranged GET; an ok response is judged by its header.
HeadFetchSettles(response) ==
    /\ rrPc = "headFetch"
    /\ IF response.kind = "rejected" THEN StructuredInvokeIssued
       ELSE IF ~response.ok
            THEN /\ rrPc' = "rangeFetch"
                 /\ rrLog' = Append(rrLog, Event("rangeFetch"))
                 /\ UNCHANGED <<rrImageSize, rrPath, rrResult, rrThrown>>
       ELSE IF ExceedsMaxImageSize(response, rrImageSize) THEN ImageRejected
       ELSE StructuredInvokeIssued
    /\ UNCHANGED exceptRegions

\* The ranged GET settles; its response is judged by its header whatever its
\* status.
RangeFetchSettles(response) ==
    /\ rrPc = "rangeFetch"
    /\ IF response.kind = "rejected" THEN StructuredInvokeIssued
       ELSE IF ExceedsMaxImageSize(response, rrImageSize) THEN ImageRejected
       ELSE StructuredInvokeIssued
    /\ UNCHANGED exceptRegions

\* modelWithStructure.invoke resolves with regions or scores to work on (or
\* with no parsed result, which throws into the catch block, as does the
\* filter on a null entry): the result is returned, or the catch block
\* issues the unconstrained call.
StructuredInvokeReturns(parsed) ==
    /\ rrPc = "structuredInvoke"
    /\ LET regions == ArrayOrEmpty(parsed.regions)
           scores == ArrayOrEmpty(parsed.scores)
           returned == [event |-> "structuredReturned",
                        gave |-> [threw |-> FALSE, regions |-> Len(regions),
                                  scores |-> Len(scores)]]
       IN /\ parsed = NoParsed \/ regions # <<>> \/ scores # <<>>
          /\ IF parsed = NoParsed \/ FilterThrows(regions)
             THEN /\ rrPc' = "fallbackInvoke"
                  /\ rrLog' = rrLog \o <<returned, Event("fallbackInvoke")>>
                  /\ UNCHANGED <<rrPath, rrResult>>
             ELSE /\ rrPc' = "returned"
                  /\ rrPath' = "structured"
                  /\ rrResult' = StructuredRecognition(regions, scores)
                  /\ rrLog' = Append(rrLog, returned)
    /\ UNCHANGED <<rrImageSize, rrThrown>>
    /\ UNCHANGED exceptRegions

\* modelWithStructure.invoke resolves with empty regions and scores: the raw
\* content, unless blank, is parsed by hand, and the model is asked again
\* when that gives nothing.
StructuredInvokeReturnsEmpty(parsed, rawContent) ==
    /\ rrPc = "structuredInvoke"
    /\ LET manualResult == ManualResult(rawContent)
           log == rrLog \o <<Event("structuredReturned")>>
                        \o (IF rawContent = <<>> THEN <<>>
                            ELSE <<Parsed("parseRaw", rawContent)>>)
       IN
       IF HasContent(manualResult)
       THEN /\ rrPc' = "returned"
            /\ rrPath' = "manualRaw"
            /\ rrResult' = manualResult
            /\ rrLog' = log
       ELSE /\ rrPc' = "directInvoke"
            /\ rrLog' = Append(log, Event("directInvoke"))
            /\ UNCHANGED <<rrPath, rrResult>>
    /\ UNCHANGED <<rrImageSize, rrThrown>>
    /\ UNCHANGED exceptRegions

\* modelWithStructure.invoke rejects: the catch block issues the
\* unconstrained call.
StructuredInvokeThrows ==
    /\ rrPc = "structuredInvoke"
    /\ rrPc' = "fallbackInvoke"
    /\ rrLog' = rrLog \o <<Event("structuredThrew"), Event("fallbackInvoke")>>
    /\ UNCHANGED <<rrImageSize, rrPath, rrResult, rrThrown>>
    /\ UNCHANGED exceptRegions

\* await model.invoke of the empty-result branch resolves.
DirectInvokeReturns(directContent) ==
    /\ rrPc = "directInvoke"
    /\ LET manualResult == ManualResult(directContent) IN
        /\ rrPc' = "returned"
        /\ rrPath' = IF HasContent(manualResult) THEN "manualDirect"
                     ELSE "structured"
        /\ rrResult' = IF HasContent(manualResult) THEN manualResult
                       ELSE StructuredRecognition(<<>>, <<>>)
    /\ rrLog' = IF directContent = <<>> THEN rrLog
                ELSE Append(rrLog, Parsed("parseDirect", directContent))
    /\ UNCHANGED <<rrImageSize, rrThrown>>
    /\ UNCHANGED exceptRegions

\* await model.invoke of the empty-result branch rejects.
DirectInvokeThrows ==
    /\ rrPc = "directInvoke"
    /\ LET at == DirectErrorLandsAt(rrPc) IN
        /\ rrPc' = at
        /\ IF at = "returned"
           THEN /\ rrPath' = "structured"
                /\ rrResult' = StructuredRecognition(<<>>, <<>>)
                /\ rrLog' = Append(rrLog, Event("directThrew"))
           ELSE /\ rrLog' = rrLog \o <<Event("directThrew"), Event("fallbackInvoke")>>
                /\ UNCHANGED <<rrPath, rrResult>>
    /\ UNCHANGED <<rrImageSize, rrThrown>>
    /\ UNCHANGED exceptRegions

\* await model.invoke of the catch block resolves: an empty content throws,
\* any other is handed to parseResponse, whose result or error is the
\* function's.
FallbackInvokeReturns(content) ==
    /\ rrPc = "fallbackInvoke"
    /\ LET r == parseResponse(content) IN
       IF content = <<>>
       THEN /\ rrPc' = "threw"
            /\ rrThrown' = "emptyResponse"
            /\ UNCHANGED <<rrPath, rrResult, rrLog>>
       ELSE IF r.threw
       THEN /\ rrPc' = "threw"
            /\ rrThrown' = "parseResponse"
            /\ rrLog' = Append(rrLog, Parsed("parseFallback", content))
            /\ UNCHANGED <<rrPath, rrResult>>
       ELSE /\ rrPc' = "returned"
            /\ rrPath' = "fallback"
            /\ rrResult' = r.result
            /\ rrLog' = Append(rrLog, Parsed("parseFallback", content))
            /\ UNCHANGED rrThrown
    /\ UNCHANGED rrImageSize
    /\ UNCHANGED exceptRegions

\* await model.invoke of the catch block rejects.
FallbackInvokeThrows ==
    /\ rrPc = "fallbackInvoke"
    /\ rrPc' = "threw"
    /\ rrThrown' = "model"
    /\ UNCHANGED <<rrImageSize, rrPath, rrResult, rrLog>>
    /\ UNCHANGED exceptRegions

RegionsNext ==
    \/ RecognizeRegions
    \/ \E response \in HeadOutcomes : HeadFetchSettles(response)
    \/ \E response \in RangeOutcomes : RangeFetchSettles(response)
    \/ \E parsed \in StructuredResults : StructuredInvokeReturns(parsed)
    \/ \E parsed \in EmptyStructuredResults, rawContent \in ContentSamples :
         StructuredInvokeReturnsEmpty(parsed, rawContent)
    \/ StructuredInvokeThrows
    \/ \E directContent \in ContentSamples : DirectInvokeReturns(directContent)
    \/ DirectInvokeThrows
    \/ \E content \in ContentSamples : FallbackInvokeReturns(content)
    \/ FallbackInvokeThrows

\* ---------------------------------------------------------------------------
\* Specifications
\* ---------------------------------------------------------------------------
BatchIdle ==
    /\ numSheets = 1
    /\ cfgMaxConcurrent = 0
    /\ loopPc = "notCalled"
    /\ nextTask = 1
    /\ executing = <<>>
    /\ results = <<>>
    /\ pc = [s \in 1..1 |-> "notStarted"]
    /\ prom = [s \in 1..1 |-> "none"]
    /\ completedCalls = [s \in 1..1 |-> 0]
    /\ failedCalls = [s \in 1..1 |-> 0]
    /\ completedCb = [s \in 1..1 |-> "none"]
    /\ failedCb = [s \in 1..1 |-> "none"]
    /\ thrown = [s \in 1..1 |-> "none"]
    /\ batchError = "none"

\* Every component but the named one is at rest.
OthersIdle(component) ==
    /\ IF component \in {"batch", "controller"} THEN TRUE ELSE BatchIdle
    /\ IF component = "callback" THEN TRUE ELSE CbIdle
    /\ IF component = "score" THEN TRUE ELSE ScoreIdle
    /\ IF component = "mergeScore" THEN TRUE ELSE MergeScoreIdle
    /\ IF component = "mergeAnswer" THEN TRUE ELSE MergeAnswerIdle
    /\ IF component = "recognition" THEN TRUE ELSE RecogIdle
    /\ IF component = "parser" THEN TRUE ELSE ParseIdle
    /\ IF component = "regions" THEN TRUE ELSE RegionsIdle
    /\ IF component = "controller" THEN TRUE ELSE ControllerIdle
    /\ IF component = "sheet" THEN TRUE ELSE SheetIdle
    /\ IF component = "keys" THEN TRUE ELSE KeysIdle
    /\ IF component = "pool" THEN TRUE ELSE PoolIdle

\* The batch grading coordinator.
Init == BatchInit /\ OthersIdle("batch")
Next == BatchNext
Spec == Init /\ [][Next]_vars

\* One call of sendCallback against an arbitrary target.
InitCallback == CbInit /\ OthersIdle("callback")
SpecCallback == InitCallback /\ [][CbNext]_vars

\* One call of calculateScores on an arbitrary model response.
InitScore == ScoreInit /\ OthersIdle("score")
SpecScore == InitScore /\ [][ScoreNext]_vars

\* One call of mergeScoreResults on the results of up to MaxPages pages.
\* calculateScores on verdicts of several questions of all types.
InitScoreMaps == ScoreMapsInit /\ OthersIdle("score")
SpecScoreMaps == InitScoreMaps /\ [][ScoreNext]_vars

InitMergeScore == MergeScoreInit /\ OthersIdle("mergeScore")
SpecMergeScore == InitMergeScore /\ [][MergeScoreNext]_vars

\* One call of mergeAnswerRecognition on up to MaxPages recognition results.
InitMergeAnswer == MergeAnswerInit /\ OthersIdle("mergeAnswer")
SpecMergeAnswer == InitMergeAnswer /\ [][MergeAnswerNext]_vars

\* One call of recognizeStudentAnswers, the branches settling in any order.
InitRecog == RecogInit /\ OthersIdle("recognition")
SpecRecog == InitRecog /\ [][RecogNext]_vars

\* One call of parseResponse on an arbitrary model response.
InitParse == ParseInit /\ OthersIdle("parser")
SpecParse == InitParse /\ [][ParseNext]_vars

\* One call of recognizeRegions against an arbitrary model.
InitRegions == RegionsInit /\ OthersIdle("regions")
SpecRegions == InitRegions /\ [][RegionsNext]_vars

\* One grade-batch request, from the HTTP handler to the end of its batch.
InitController == BatchInit /\ ControllerInit /\ OthersIdle("controller")
SpecController == InitController /\ [][ControllerNext]_vars

\* One call of gradeSheet on a sheet of up to MaxPages pages.
InitSheet == SheetInit /\ OthersIdle("sheet")
SpecSheet == InitSheet /\ [][SheetNext]_vars

\* Every keyed lookup applied to a pair of question numbers.
InitKeys == KeysInit /\ OthersIdle("keys")
SpecKeys == InitKeys /\ [][KeysNext]_vars

\* Two gradeBatch calls served at the same time.
InitPool == PoolInit /\ OthersIdle("pool")
SpecPool == InitPool /\ [][PoolNext]_vars

\* ---------------------------------------------------------------------------
\* Derived notions
\* ---------------------------------------------------------------------------
InFlight == {s \in Sheets : pc[s] \in {"grading", "sendCompleted", "sendFailed"}}
BatchSettled == loopPc \in {"returned", "rejected"}
Quiescent == BatchSettled /\ InFlight = {}

\* C1: at every moment the number of sheet jobs started and not yet finished
\* is at most the concurrency limit N (the configured value, 5 when unset or 0).
C1_InFlightBounded ==
    Cardinality(InFlight) <= MaxConcurrent(cfgMaxConcurrent)

\* C1 witness: the limit is reached after a job has ended, further sheets waiting.
C1_Witness ==
    /\ Cardinality(InFlight) = MaxConcurrent(cfgMaxConcurrent)
    /\ nextTask <= numSheets
    /\ Len(results) > 0

\* C2 (as claimed): a job failure never aborts the batch; once the batch has
\* come to rest every sheet has been started, the failed ones have a failed
\* callback and every other sheet has run to its completed callback.
C2_FailureNeverAbortsBatch ==
    Quiescent =>
        \A s \in Sheets :
            /\ pc[s] # "notStarted"
            /\ failedCalls[s] = 0 => completedCb[s] \in {"delivered", "exhausted"}

\* C3 (as claimed): every sheet of a batch gets exactly one callback delivery
\* attempt sequence, completed or failed, never both and never none.
C3_ExactlyOneCallbackPerSheet ==
    /\ \A s \in Sheets : completedCalls[s] + failedCalls[s] <= 1
    /\ Quiescent => \A s \in Sheets : completedCalls[s] + failedCalls[s] = 1

\* C4: a sheet whose completed callback could not be delivered after all its
\* retries is not marked failed: no failed-status callback is sent for it and
\* its job ends without an error.
C4_UndeliveredCompletedIsNotFailed ==
    \A s \in Sheets :
        completedCb[s] = "exhausted" =>
            /\ failedCalls[s] = 0
            /\ failedCb[s] = "none"
            /\ pc[s] = "returned"
            /\ prom[s] = "fulfilled"
            /\ thrown[s] = "none"

\* C4 witness: a completed callback was exhausted while the batch goes on.
C4_Witness ==
    \E s \in Sheets :
        /\ completedCb[s] = "exhausted"
        /\ \E t \in Sheets : t # s /\ pc[t] = "grading"

\* C5: when the failed-status callback of a failed sheet cannot be delivered,
\* the callback error does not leave the sheet job (the job throws its grading
\* error, gradeBatch never rejects with a callback error) and the step changes
\* nothing of any other sheet.
C5_FailedCallbackErrorIsSwallowed ==
    [][\A s \in Sheets :
         (failedCb[s] = "sending" /\ failedCb'[s] = "exhausted") =>
            /\ thrown'[s] = "grading"
            /\ batchError' # "callback"
            /\ \A t \in Sheets \ {s} :
                 /\ pc'[t] = pc[t]
                 /\ prom'[t] = prom[t]
                 /\ thrown'[t] = thrown[t]
                 /\ completedCb'[t] = completedCb[t]
                 /\ failedCb'[t] = failedCb[t]
                 /\ completedCalls'[t] = completedCalls[t]
                 /\ failedCalls'[t] = failedCalls[t]]_vars

\* C5 witness: a failed callback was exhausted with another sheet in flight.
C5_Witness ==
    \E s \in Sheets :
        /\ failedCb[s] = "exhausted"
        /\ pc[s] = "threw"
        /\ \E t \in Sheets : t # s /\ pc[t] \in {"grading", "sendCompleted"}

\* ---------------------------------------------------------------------------
\* Claims about sendCallback (checked under SpecCallback)
\* ---------------------------------------------------------------------------
PostCount == Cardinality({i \in 1..Len(cbLog) : cbLog[i].ev = "POST"})
PostsBefore(i) == Cardinality({j \in 1..(i - 1) : cbLog[j].ev = "POST"})
Is2xx(o) == o.kind = "response" /\ o.status \in 200..299
CbSettled == cbPc \in {"returned", "threw"}

\* C6: sendCallback makes at most retries+1 POSTs, and the first POST answered
\* with a 2xx status is the last one: sendCallback then returns normally.
C6_AtMostRetriesPlusOnePosts ==
    /\ PostCount <= cbRetries + 1
    /\ \A i \in 1..Len(cbOutcomes) :
         Is2xx(cbOutcomes[i]) =>
            /\ i = Len(cbOutcomes)
            /\ PostCount = i
            /\ cbPc = "returned"
            /\ cbThrown = <<>>

\* C6 witness: with the default retries, the second POST got a 2xx response.
C6_Witness ==
    /\ cbRetries = DefaultRetries
    /\ cbPc = "returned"
    /\ PostCount = 2
    /\ Is2xx(cbOutcomes[2])

\* C7: after failed attempt k (0-based) sendCallback waits 2^k seconds (1s, 2s,
\* 4s) before the next POST, never waits after the last allowed attempt, and a
\* target failing twice and then succeeding gets exactly 3 POSTs separated by
\* 1s and 2s with a normal return.
C7_ExponentialBackoff ==
    /\ \A i \in 1..Len(cbLog) :
         /\ cbLog[i].ev = "WAIT" =>
              /\ i > 1 /\ cbLog[i - 1].ev = "POST"
              /\ cbLog[i].ms = 1000 * (2 ^ (PostsBefore(i) - 1))
              /\ PostsBefore(i) = 1 => cbLog[i].ms = 1000
              /\ PostsBefore(i) = 2 => cbLog[i].ms = 2000
              /\ PostsBefore(i) = 3 => cbLog[i].ms = 4000
              /\ PostsBefore(i) <= cbRetries
         /\ (cbLog[i].ev = "POST" /\ i > 1) => cbLog[i - 1].ev = "WAIT"
    /\ CbSettled => (cbLog # <<>> /\ cbLog[Len(cbLog)].ev = "POST")
    /\ (/\ Len(cbOutcomes) = 3
        /\ ~Is2xx(cbOutcomes[1]) /\ ~Is2xx(cbOutcomes[2]) /\ Is2xx(cbOutcomes[3]))
       => /\ cbLog = <<Post, Wait(1000), Post, Wait(2000), Post>>
          /\ cbPc = "returned"

\* C7 witness: every allowed attempt of the default call failed (waits of 1s,
\* 2s and 4s, none after the fourth POST).
C7_Witness ==
    /\ cbRetries = DefaultRetries
    /\ cbPc = "threw"
    /\ Len(cbLog) = 7

\* C7 witness of the scenario: two failures, then success.
C7_ScenarioReached ==
    /\ Len(cbOutcomes) = 3
    /\ Is2xx(cbOutcomes[3])
    /\ cbPc = "returned"

Contains(msg, sub) ==
    \E i \in 0..(Len(msg) - Len(sub)) : SubSeq(msg, i + 1, i + Len(sub)) = sub

\* C8: a network error and any non-2xx response are failed attempts; after
\* retries+1 failed attempts sendCallback throws an error whose message
\* contains the message of the last attempt's error; it returns normally only
\* after a 2xx response.
C8_FailureAndExhaustion ==
    /\ cbPc = "returned" =>
         /\ cbOutcomes # <<>>
         /\ Is2xx(cbOutcomes[Len(cbOutcomes)])
    /\ (/\ Len(cbOutcomes) = cbRetries + 1
        /\ \A i \in 1..Len(cbOutcomes) : ~Is2xx(cbOutcomes[i]))
       => /\ cbPc = "threw"
          /\ Contains(cbThrown, AttemptError(cbOutcomes[Len(cbOutcomes)]))
    /\ cbPc = "threw" =>
         /\ Len(cbOutcomes) = cbRetries + 1
         /\ \A i \in 1..Len(cbOutcomes) : ~Is2xx(cbOutcomes[i])

\* C8 witness: all attempts failed, a network error first and a non-2xx
\* response last.
C8_Witness ==
    /\ cbPc = "threw"
    /\ cbRetries >= 1
    /\ cbOutcomes[1].kind = "network"
    /\ cbOutcomes[Len(cbOutcomes)].kind = "response"

\* ---------------------------------------------------------------------------
\* Claims about calculateScores (checked under SpecScore)
\* ---------------------------------------------------------------------------
ResultQuestions == {scResult.questions[i] : i \in DOMAIN scResult.questions}

\* C9 (as claimed): every question in the result of calculateScores satisfies
\* 0 <= score <= max_score, whatever numbers the model returned.
C9_ScoreWithinBounds ==
    scPc = "returned" =>
        \A q \in ResultQuestions : 0 <= q.score /\ q.score <= q.max_score

\* The blank sheet's score for question number qn: the list's last entry of
\* that number (the only one when the number is declared once).
DeclaredIn(qn) == \E i \in DOMAIN scBlankScores : scBlankScores[i].questionNumber = qn
DeclaredScore(qn) ==
    LET idx == {i \in DOMAIN scBlankScores : scBlankScores[i].questionNumber = qn}
        last == CHOOSE i \in idx : \A j \in idx : j <= i
    IN scBlankScores[last].score

\* C10: every graded question whose question number is declared in the blank
\* sheet's scores has the blank sheet's score as max_score, whatever max_score
\* the model returned.
C10_MaxScoreFromBlankSheet ==
    scPc = "returned" =>
        \A q \in ResultQuestions :
            DeclaredIn(q.question_number) =>
                q.max_score = DeclaredScore(q.question_number)

\* C10 witness: the model's max_score differed from the declared one and was
\* overridden.
C10_Witness ==
    /\ scPc = "returned"
    /\ Len(scResult.questions) = 1
    /\ Len(scContent.questions) = 1
    /\ DeclaredIn(scResult.questions[1].question_number)
    /\ scContent.questions[1].max_score.v # scResult.questions[1].max_score
    /\ scContent.questions[1].score.v > scResult.questions[1].score

\* The entry a score map holds for question q, if any.
HasEntry(map, q) ==
    /\ ObjectKey(q.question_number) \in DOMAIN map
    /\ map[ObjectKey(q.question_number)]
          = [score |-> q.score, max_score |-> q.max_score]

\* C29 (as claimed): in a result of calculateScores every question of type
\* choice or fill has an objectiveScores entry under its question number with
\* the same score and max_score, and every essay question has such an entry
\* in subjectiveScores.
C29_ScoreMapsAgreeWithQuestions ==
    scPc = "returned" =>
        \A q \in ResultQuestions :
            /\ q.type \in {"choice", "fill"} => HasEntry(scResult.objectiveScores, q)
            /\ q.type = "essay" => HasEntry(scResult.subjectiveScores, q)

\* The question numbers of a list of questions.
NumbersOf(qs) == {qs[i].question_number : i \in DOMAIN qs}

\* C11: the result of mergeScoreResults has totalScore equal to the sum of
\* score and totalMaxScore equal to the sum of max_score over its own
\* questions list, and every question number of the input pages is in that
\* list exactly once, also when it occurs in two pages.
C11_TotalsAreSumsOverQuestions ==
    msPc = "returned" =>
        /\ msMerged.totalScore = SumOf(msMerged.questions, "score")
        /\ msMerged.totalMaxScore = SumOf(msMerged.questions, "max_score")
        /\ \A n \in NumbersOf(AllQuestions(msResults)) :
             Cardinality({i \in DOMAIN msMerged.questions :
                            msMerged.questions[i].question_number = n}) = 1

\* C11 witness: two pages carry the same question number with different
\* scores, next to another question, and the merge has returned.
C11_Witness ==
    /\ msPc = "returned"
    /\ Len(msResults) = 2
    /\ Len(msMerged.questions) = 2
    /\ \E i \in DOMAIN msResults[1].questions, j \in DOMAIN msResults[2].questions :
         /\ msResults[1].questions[i].question_number
              = msResults[2].questions[j].question_number
         /\ msResults[1].questions[i].score # msResults[2].questions[j].score

\* The first question of number n in the list qs.
FirstOf(qs, n) ==
    qs[CHOOSE i \in DOMAIN qs :
          /\ qs[i].question_number = n
          /\ \A j \in DOMAIN qs : qs[j].question_number = n => i <= j]

\* The index of the earliest input result for which Has holds.
Earliest(Has(_)) ==
    CHOOSE i \in DOMAIN msResults :
        Has(i) /\ \A j \in DOMAIN msResults : Has(j) => i <= j

RECURSIVE EntriesOf(_)
EntriesOf(regs) ==
    IF regs = <<>> THEN <<>>
    ELSE [i \in DOMAIN Head(regs).questions |->
            [type |-> Head(regs).type,
             question_number |-> Head(regs).questions[i].question_number,
             answer |-> Head(regs).questions[i].answer]]
         \o EntriesOf(Tail(regs))

MergeInput == EntriesOf(AllRegions(maResults))
MergeOutput == EntriesOf(maMerged.regions)

\* The key of a question: its region type and its question number as written
\* out (the reading of "question_number" most favourable to the claim).
KeyOf(e) == <<e.type, ObjectKey(e.question_number)>>

\* The positions of es that hold the first occurrence of a key.
FirstOccurrences(es) ==
    {i \in DOMAIN es : \A j \in 1..(i - 1) : KeyOf(es[j]) # KeyOf(es[i])}

\* C12 (as claimed): every key (region type, question_number) of the inputs is
\* in the output exactly once, with the answer of its first occurrence.
C12_EachKeyOnceWithFirstAnswer ==
    maPc = "returned" =>
        LET in == MergeInput
            out == MergeOutput
        IN  \A i \in FirstOccurrences(in) :
                LET held == {j \in DOMAIN out : KeyOf(out[j]) = KeyOf(in[i])}
                IN  /\ Cardinality(held) = 1
                    /\ \A j \in held : out[j].answer = in[i].answer

\* What the first occurrence of a key becomes in the output: the same question
\* number and answer under the type of the key, a fill key under essay.
Regrouped(e) == [e EXCEPT !.type = IF e.type = "fill" THEN "essay" ELSE e.type]

\* C12 (amended): the output holds, for every key (region type, question
\* number as written out) of the inputs, exactly one question, the first
\* occurrence of the key in input order with its answer, under the region of
\* the key's type (a fill key under essay), and it holds no other question.
C12_OneQuestionPerKeyFirstAnswer ==
    maPc = "returned" =>
        LET in == MergeInput
            out == MergeOutput
            firsts == FirstOccurrences(in)
            expected == [i \in firsts |-> Regrouped(in[i])]
        IN  \A t \in {out[j] : j \in DOMAIN out} \cup {expected[i] : i \in firsts} :
                Cardinality({j \in DOMAIN out : out[j] = t})
                  = Cardinality({i \in firsts : expected[i] = t})

\* C12 witness: a key occurs in both results with different answers, and a
\* fill key sits next to the essay key of the same question number.
C12_Witness ==
    /\ maPc = "returned"
    /\ Len(maResults) = 2
    /\ LET in == MergeInput IN
        /\ \E i, j \in DOMAIN in :
             /\ i < j
             /\ KeyOf(in[i]) = KeyOf(in[j])
             /\ in[i].answer # in[j].answer
        /\ \E i, j \in DOMAIN in :
             /\ in[i].type = "fill"
             /\ in[j].type = "essay"
             /\ in[i].question_number = in[j].question_number

\* mergeAnswerRecognition was called with [A, A].
MergedWithItself ==
    /\ maPc = "returned"
    /\ Len(maResults) = 2
    /\ maResults[1] = maResults[2]

QuestionSet(regs) == LET es == EntriesOf(regs) IN {es[i] : i \in DOMAIN es}

\* C13 (as claimed): for every A, mergeAnswerRecognition([A, A]) holds exactly
\* the (type, question_number, answer) questions of A.
C13_SelfMergeKeepsQuestionSet ==
    MergedWithItself =>
        QuestionSet(maMerged.regions) = QuestionSet(maResults[1].regions)

\* No two questions of A share a key and every region of A is of type choice
\* or essay.
HasDistinctKeys(A) ==
    LET es == EntriesOf(A.regions) IN
    /\ \A i, j \in DOMAIN es : i # j => KeyOf(es[i]) # KeyOf(es[j])
    /\ \A i \in DOMAIN A.regions : A.regions[i].type \in {"choice", "essay"}

\* C13 (amended): for every A whose regions are of type choice or essay and
\* whose questions have pairwise different keys (region type, question number
\* as written out), mergeAnswerRecognition([A, A]) holds exactly the
\* (type, question_number, answer) questions of A.
C13_SelfMergeKeepsDistinctQuestions ==
    (MergedWithItself /\ HasDistinctKeys(maResults[1])) =>
        QuestionSet(maMerged.regions) = QuestionSet(maResults[1].regions)

\* C13 witness: a result with a choice and an essay question of different
\* keys was merged with itself.
C13_Witness ==
    /\ MergedWithItself
    /\ HasDistinctKeys(maResults[1])
    /\ {e.type : e \in QuestionSet(maResults[1].regions)} = {"choice", "essay"}

\* How branch b of recognizeStudentAnswers ended (0 is the full-image call).
SettledAt(b) == CHOOSE k \in DOMAIN rsOrder : rsOrder[k].branch = b
OutcomeOf(b) == rsOrder[SettledAt(b)].outcome
EssayRegionsReturned ==
    IF OutcomeOf(0).kind = "ok" THEN SelectSeq(OutcomeOf(0).regions, IsEssay) ELSE <<>>

\* C14: recognizeStudentAnswers never fails because a branch fails: a failing
\* choice region gives an entry with an empty questions list, a failing
\* full-image call gives no essay region, and the results of the branches
\* that succeeded are returned.
C14_BranchFailureNeverFails ==
    /\ rsPc # "threw"
    /\ rsPc = "returned" =>
        LET ch == choiceRegions(rsRegions) IN
        /\ Len(rsResult) = Len(ch) + Len(EssayRegionsReturned)
        /\ \A i \in DOMAIN ch :
             \E j \in DOMAIN rsResult :
                rsResult[j] = RegionAnswerResult("choice", ch[i],
                                 IF OutcomeOf(i).kind = "ok"
                                 THEN OutcomeOf(i).questions ELSE <<>>)
        /\ OutcomeOf(0).kind = "error" =>
             \A j \in DOMAIN rsResult : rsResult[j].type # "essay"
        /\ \A k \in DOMAIN EssayRegionsReturned :
             \E j \in DOMAIN rsResult : rsResult[j] = EssayRegionsReturned[k]

\* C14 witness: the call returned although a choice region and the full-image
\* call failed, with the questions of a choice region that succeeded.
C14_Witness ==
    /\ rsPc = "returned"
    /\ OutcomeOf(0).kind = "error"
    /\ \E i, j \in DOMAIN rsChoice :
         /\ OutcomeOf(i).kind \in {"cropError", "recognizeError"}
         /\ OutcomeOf(j).kind = "ok"
         /\ OutcomeOf(j).questions # <<>>
         /\ \E k \in DOMAIN rsResult : rsResult[k] = rsChoice[j].value

\* C20: recognizeStudentAnswers returns its regions in a fixed order, whatever
\* the order in which the branches ended: one entry per choice region of the
\* blank sheet, in the blank sheet's order, followed by the essay regions of
\* the full-image call in the order of its response.
C20_RegionsInFixedOrder ==
    rsPc = "returned" =>
        LET ch == choiceRegions(rsRegions) IN
        /\ Len(rsResult) = Len(ch) + Len(EssayRegionsReturned)
        /\ \A i \in DOMAIN ch :
             /\ rsResult[i].type = "choice"
             /\ rsResult[i].region = ch[i]
        /\ \A k \in DOMAIN EssayRegionsReturned :
             rsResult[Len(ch) + k] = EssayRegionsReturned[k]

\* C20 witness: the full-image call ended first with two essay regions, then
\* the second choice region, then the first, and the call returned.
C20_Witness ==
    /\ rsPc = "returned"
    /\ Len(rsChoice) >= 2
    /\ Len(EssayRegionsReturned) = 2
    /\ SettledAt(0) < SettledAt(2)
    /\ SettledAt(2) < SettledAt(1)
    /\ rsChoice[1].value # rsChoice[2].value

\* ---------------------------------------------------------------------------
\* parseResponse (SpecParse)
\* ---------------------------------------------------------------------------
ParsedValue == JsonParse(JsonContent(prContent))

\* Indices of the entries of an array field that pass a validation, in order.
RECURSIVE KeptIndices(_, _, _)
KeptIndices(items, Valid(_), i) ==
    IF i > Len(items) THEN <<>>
    ELSE (IF Valid(items[i]) THEN <<i>> ELSE <<>>)
         \o KeptIndices(items, Valid, i + 1)

\* The result is what the claim describes for a parsed value: non-array
\* fields as empty arrays, failing entries dropped, the others kept in order.
IsFilteredResult(value, result) ==
    LET regions == IF value.regions.t = "array" THEN value.regions.items ELSE <<>>
        scores == IF value.scores.t = "array" THEN value.scores.items ELSE <<>>
        keptRegions == KeptIndices(regions, validateRegion, 1)
        keptScores == KeptIndices(scores, validateScore, 1)
    IN /\ Len(result.regions) = Len(keptRegions)
       /\ \A k \in DOMAIN keptRegions :
             /\ result.regions[k].type = regions[keptRegions[k]].type
             /\ result.regions[k].x_min_percent
                  = Max(0, regions[keptRegions[k]].x_min_percent.v - 2)
             /\ result.regions[k].x_max_percent
                  = Min(100, regions[keptRegions[k]].x_max_percent.v + 2)
       /\ Len(result.scores) = Len(keptScores)
       /\ \A k \in DOMAIN keptScores : result.scores[k] = scores[keptScores[k]]

\* C16 as stated: parseResponse throws only when no JSON value can be parsed
\* from the processed text; for every parsable text it returns the filtered
\* result, empty when nothing is left.
C16_ThrowsOnlyWhenUnparsable ==
    prPc # "notCalled" =>
        LET parsed == ParsedValue IN
        /\ prPc = "threw" => ~parsed.ok
        /\ parsed.ok => prPc = "returned" /\ IsFilteredResult(parsed.value, prResult)

\* C16, amended: parseResponse throws exactly when JSON.parse of the processed
\* text fails or yields null; for every other parsable text, missing or
\* non-array regions and scores become empty arrays, entries that fail
\* validation are dropped, and the result, empty or not, is returned.
C16_ThrowsOnlyWhenUnparsableOrNull ==
    prPc # "notCalled" =>
        LET parsed == ParsedValue IN
        /\ prPc = "threw" <=> (~parsed.ok \/ parsed.value.t = "null")
        /\ prPc = "returned" => IsFilteredResult(parsed.value, prResult)

\* A fenced object whose regions lose an entry and whose scores are all
\* dropped is returned.
C16_Witness ==
    /\ prPc = "returned"
    /\ Len(prContent) > 1
    /\ ParsedValue.value.regions.t = "array"
    /\ Len(ParsedValue.value.regions.items) = 2
    /\ Len(prResult.regions) = 1
    /\ ParsedValue.value.scores.t = "array"
    /\ ParsedValue.value.scores.items # <<>>
    /\ prResult.scores = <<>>

\* ---------------------------------------------------------------------------
\* recognizeRegions (SpecRegions)
\* ---------------------------------------------------------------------------
WithinPage(region) ==
    /\ \A coord \in {region.x_min_percent, region.y_min_percent,
                     region.x_max_percent, region.y_max_percent} :
          0 <= coord /\ coord <= 100
    /\ region.x_min_percent < region.x_max_percent
    /\ region.y_min_percent < region.y_max_percent

\* C15: every region of a RecognitionResult that recognizeRegions returns, on
\* the structured-output path as on the manual-parse paths, has its four
\* coordinates in [0,100] with x_min_percent < x_max_percent and
\* y_min_percent < y_max_percent, whatever the model put out.
C15_ReturnedRegionsWithinPage ==
    rrPc = "returned" =>
        \A i \in DOMAIN rrResult.regions : WithinPage(rrResult.regions[i])

\* ---------------------------------------------------------------------------
\* gradeBatch's own result (Spec)
\* ---------------------------------------------------------------------------
\* C18: gradeBatch(dto) resolves (with success = true and submittedCount =
\* dto.sheets.length) for every batch, whatever the outcome of the individual
\* sheets: it never rejects, and once the batch has come to rest it has
\* returned.
C18_BatchAlwaysResolves ==
    /\ loopPc # "rejected"
    /\ Quiescent => loopPc = "returned" /\ batchError = "none"

\* ---------------------------------------------------------------------------
\* The grade-batch HTTP handler (SpecController)
\* ---------------------------------------------------------------------------
\* C17: the handler returns the accepted response (success = true,
\* submittedCount = number of sheets) without waiting for any sheet to be
\* graded, and no outcome of the background gradeBatch call, its rejection
\* included, changes that response or makes the handler fail.
C17_AcceptedWithoutWaiting ==
    [][/\ ctlPc' # "notCalled" =>
            /\ ctlPc' = "returned"
            /\ ctlResponse' = AcceptedResponse(numSheets)
       /\ (ctlPc = "notCalled" /\ ctlPc' # "notCalled") =>
            /\ loopPc' \in {"race", "all"}
            /\ \A s \in Sheets : pc'[s] \in {"notStarted", "grading"}]_vars

\* The background call rejected and the rejection was logged; the handler had
\* returned its response for a batch of several sheets.
C17_Witness ==
    /\ ctlPc = "returned"
    /\ ctlResponse = AcceptedResponse(numSheets)
    /\ numSheets > 1
    /\ loopPc = "rejected"
    /\ ctlLogged

\* ---------------------------------------------------------------------------
\* The pages of one sheet (SpecSheet)
\* ---------------------------------------------------------------------------
Started(event) == {k \in DOMAIN gsLog : gsLog[k].event = event}
EndedBefore(event, page, k) ==
    \E j \in 1..(k - 1) : gsLog[j].event = event /\ gsLog[j].page = page

\* C19: within one sheet the pages are processed strictly in input order and
\* one at a time: the recognition of page i+1 is not started before the score
\* calculation of page i has completed, and page i is graded against
\* blankSheetRecognition[i] and, when answerRecognition is an array,
\* answerRecognition[i].
C19_PagesInOrderOneAtATime ==
    LET log == gsLog IN
    /\ \A k \in DOMAIN log :
          /\ log[k].page = (k - 1) \div 4
          /\ log[k].event = CASE (k - 1) % 4 = 0 -> "recognizeStudentAnswers"
                               [] (k - 1) % 4 = 1 -> "recognized"
                               [] (k - 1) % 4 = 2 -> "calculateScores"
                               [] OTHER -> "calculated"
          /\ log[k].url = log[k].page
          /\ log[k].blank = log[k].page
          /\ log[k].event = "calculateScores" =>
                IF gsAnswers.isArray
                THEN ~log[k].answer.whole /\ log[k].answer.index = log[k].page
                ELSE log[k].answer.whole
          /\ (log[k].event = "recognizeStudentAnswers" /\ log[k].page > 0) =>
                EndedBefore("calculated", log[k].page - 1, k)
    /\ gsPc = "returned" => Len(log) = 4 * gsUrls

\* A sheet of several pages with per-page answer keys was graded to the end.
C19_Witness ==
    /\ gsPc = "returned"
    /\ gsUrls > 1
    /\ gsAnswers.isArray
    /\ Cardinality(Started("calculateScores")) = gsUrls

\* ---------------------------------------------------------------------------
\* The fallback ladder of recognizeRegions (SpecRegions)
\* ---------------------------------------------------------------------------
At(event) == {k \in DOMAIN rrLog : rrLog[k].event = event}
GaveNothing(entry) == entry.gave.regions = 0 /\ entry.gave.scores = 0
UnconstrainedCalls == At("directInvoke") \cup At("fallbackInvoke")
ModelCalls == At("structuredInvoke") \cup UnconstrainedCalls

\* C21: when the structured-output call returns empty regions and empty
\* scores the raw response text is parsed first, and the unconstrained call
\* is issued only if that parse gave no regions and no scores; when the
\* structured-output call throws, exactly one unconstrained call is made, its
\* text is parsed by parseResponse, and the error of that parse is the error
\* of recognizeRegions.
C21_FallbackStepsInOrder ==
    LET log == rrLog
        ended == rrPc \in {"returned", "threw"}
    IN
    /\ \A k \in At("parseRaw") :
          /\ k > 1 /\ log[k - 1].event = "structuredReturned"
          /\ GaveNothing(log[k - 1])
          /\ ~GaveNothing(log[k]) =>
                /\ UnconstrainedCalls = {}
                /\ k = Len(log)
                /\ rrPc = "returned"
                /\ Len(rrResult.regions) = log[k].gave.regions
                /\ Len(rrResult.scores) = log[k].gave.scores
    /\ \A k \in At("directInvoke") :
          /\ \E j \in 1..(k - 1) :
                log[j].event = "structuredReturned" /\ GaveNothing(log[j])
          /\ \A j \in At("parseRaw") : j < k /\ GaveNothing(log[j])
    /\ At("structuredThrew") # {} =>
          /\ At("directInvoke") = {}
          /\ Cardinality(At("fallbackInvoke")) = 1
          /\ \A k \in At("parseFallback") :
                /\ k = Len(log)
                /\ ended
                /\ log[k].gave.threw <=>
                      (rrPc = "threw" /\ rrThrown = "parseResponse")
                /\ ~log[k].gave.threw =>
                      /\ rrPath = "fallback"
                      /\ Len(rrResult.regions) = log[k].gave.regions
                      /\ Len(rrResult.scores) = log[k].gave.scores
          /\ rrPc = "returned" => At("parseFallback") # {}

\* The structured call came back empty, the raw text was parsed and gave
\* nothing, and the result of the unconstrained call was returned.
C21_Witness ==
    /\ rrPc = "returned"
    /\ rrPath = "manualDirect"
    /\ At("parseRaw") # {}
    /\ At("directInvoke") # {}

\* C28: one call of recognizeRegions invokes the model at most twice on every
\* path: the structured-output call plus at most one unconstrained call.
C28_AtMostTwoModelCalls ==
    /\ Cardinality(ModelCalls) <= 2
    /\ Cardinality(At("structuredInvoke")) <= 1
    /\ Cardinality(UnconstrainedCalls) <= 1

\* The unconstrained call of the empty-result branch rejected and the
\* function returned after two model calls.
C28_Witness ==
    /\ rrPc = "returned"
    /\ At("directThrew") # {}
    /\ Cardinality(ModelCalls) = 2

\* C23: no model call is made with an image whose size exceeds
\* MAX_IMAGE_SIZE.
C23_NoModelCallAboveMaxImageSize ==
    ModelCalls # {} => rrImageSize <= MAX_IMAGE_SIZE

\* ---------------------------------------------------------------------------
\* The regions of mergeAnswerRecognition (SpecMergeAnswer)
\* ---------------------------------------------------------------------------
QuestionTypes == {"choice", "fill", "essay"}
InputRegions == AllRegions(maResults)
OutputTypes == {maMerged.regions[i].type : i \in DOMAIN maMerged.regions}
\* The types of the input regions that hold at least one question.
AnsweredTypes ==
    {InputRegions[i].type : i \in {j \in DOMAIN InputRegions :
                                      InputRegions[j].questions # <<>>}}
RegionsWellFormed ==
    /\ \A i \in DOMAIN maMerged.regions : maMerged.regions[i].questions # <<>>
    /\ \A i, j \in DOMAIN maMerged.regions :
          maMerged.regions[i].type = maMerged.regions[j].type => i = j

\* C30 (as claimed): every region of the result has a non-empty questions
\* list, no two regions have the same type, and a question type has a region
\* in the output exactly when at least one question of that type occurs in
\* the inputs.
C30_RegionExactlyForAnsweredTypes ==
    maPc = "returned" =>
        /\ RegionsWellFormed
        /\ \A ty \in QuestionTypes : ty \in OutputTypes <=> ty \in AnsweredTypes

\* C30 (amended): as above, where a question of a fill region counts as an
\* essay question: the output has a choice region exactly when a choice
\* question occurs in the inputs, an essay region exactly when an essay or
\* fill question occurs, and never a fill region.
C30_RegionExactlyForGroupedTypes ==
    maPc = "returned" =>
        /\ RegionsWellFormed
        /\ \A ty \in QuestionTypes :
             ty \in OutputTypes <=>
                \E raw \in AnsweredTypes : ty = IF raw = "fill" THEN "essay" ELSE raw

\* C30 witness: the only choice region of the inputs has no questions, an
\* essay region has some, and the merge returned without a choice region.
C30_Witness ==
    /\ maPc = "returned"
    /\ \E i \in DOMAIN InputRegions : InputRegions[i].type = "choice"
    /\ "choice" \notin AnsweredTypes
    /\ "essay" \in AnsweredTypes
    /\ OutputTypes = {"essay"}

\* ---------------------------------------------------------------------------
\* Question numbers as keys (SpecKeys)
\* ---------------------------------------------------------------------------
\* Every use that was applied treated the two numbers as one key exactly when
\* Same holds of them.
TreatedAsSameWhen(uses, Same(_, _)) ==
    \A use \in uses :
        qkSeen[use] # "notCalled" =>
            (qkSeen[use] = "same" <=> Same(qkFirst, qkSecond))

SameTypeAndValue(a, b) == a = b
SameWrittenOut(a, b) == a.v = b.v

C27_SettlesAfterEverySheet ==
    BatchSettled =>
        /\ InFlight = {}
        /\ \A s \in Sheets : pc[s] # "notStarted"

\* ---------------------------------------------------------------------------
\* gradeBatch calls running at the same time (SpecPool)
\* ---------------------------------------------------------------------------
JobsInFlight == {<<c, s>> \in Calls \X (1..MaxCallSheets) :
                    s \in CallSheets(c) /\ gbJob[c][s] = "inFlight"}

\* C24 (as claimed): when several gradeBatch calls run at the same time, the
\* total number of sheet jobs in flight across all of them never exceeds
\* maxConcurrent.
C24_TotalInFlightBounded ==
    Cardinality(JobsInFlight) <= MaxConcurrent(gbConfigured)

\* ---------------------------------------------------------------------------
\* A page of a sheet fails (SpecSheet)
\* ---------------------------------------------------------------------------
CallbacksOf(status) ==
    {k \in DOMAIN gsCallbacks : gsCallbacks[k].status = status}

\* C26: if recognition or score calculation of page k throws, no later page
\* of the sheet is recognised or scored, no completed-status callback is sent
\* for the sheet, and the job ends in the failure path with one failed-status
\* callback carrying the error message as failureReason.
C26_PageFailureEndsSheet ==
    gsThrown.at \in {"recognizeStudentAnswers", "calculateScores"} =>
        /\ \A k \in DOMAIN gsLog : gsLog[k].page <= gsThrown.page
        /\ gsLog[Len(gsLog)].event = gsThrown.at
        /\ gsLog[Len(gsLog)].page = gsThrown.page
        /\ gsThrown.at = "recognizeStudentAnswers" =>
              \A k \in Started("calculateScores") : gsLog[k].page < gsThrown.page
        /\ Len(gsPageResults) = gsThrown.page
        /\ CallbacksOf("completed") = {}
        /\ gsCallbacks = <<[status |-> "failed",
                            failureReason |-> gsThrown.error.message]>>
        /\ gsPc \in {"sendFailedCallback", "threw"}

\* C26 witness: the first page of a sheet of two was graded, the score
\* calculation of the second threw, and the job ended after its failed
\* callback.
C26_Witness ==
    /\ gsPc = "threw"
    /\ gsUrls = 2
    /\ gsThrown.at = "calculateScores"
    /\ gsThrown.page = 1
    /\ gsThrown.error.message = "Failed to parse model response"
    /\ Len(gsCallbacks) = 1

====
